---- MODULE Spec2Model ----
(***************************************************************************)
(* A model of the differential-privacy mechanisms of whitenoise-core:      *)
(*   - the C ABI of the scalar mechanisms      (ffi-rust/src/direct_api.rs) *)
(*   - the validator of the Laplace mechanism                              *)
(*                     (validator-rust/src/components/laplace_mechanism.rs) *)
(*   - the array wrappers of the mechanisms                                *)
(*                          (runtime-rust/src/components/mechanisms.rs)     *)
(*   - the utilities of the runtime    (runtime-rust/src/utilities/mod.rs)  *)
(*   - the imputation of null cells  (runtime-rust/src/components/impute.rs) *)
(*   - the row-wise minimum               (runtime-rust/src/components.rs)  *)
(* Every call of the library is one action: its arguments are drawn from   *)
(* small sets, the call and its result are recorded in the variable of its *)
(* family.  Floats are modelled by integers; the random source is an       *)
(* argument of the kernels.                                                *)
(***************************************************************************)
EXTENDS Integers, Naturals, Sequences, FiniteSets, TLC

VARIABLES
    ffi,     \* the last call through the C ABI and what it returned
    prop,    \* the last LaplaceMechanism::propagate_property call
    eval,    \* the last mechanism evaluate call
    acct,    \* the last LaplaceMechanism::get_privacy_usage or accuracy call
    util,    \* the last call of a function of runtime-rust/src/utilities
    comp     \* the last call of an imputation or of a row-wise component

vars == <<ffi, prop, eval, acct, util, comp>>

\* no call of the family has been made yet
Idle == [op |-> "idle"]

(***************************************************************************)
(* Bounds of the model.                                                    *)
(***************************************************************************)
MaxAbs == 2       \* integer arguments of the C ABI range over -MaxAbs..MaxAbs
MaxDraw == 2      \* magnitude of the largest geometric draw of the random source
MaxRows == 2      \* rows of an array argument
MaxCols == 2      \* columns of an array argument
MaxUsages == 2    \* length of a declared privacy_usage list
ExpBits == 3      \* bits of the exponent of a double (11 in f64)
MantBits == 6     \* bits of the mantissa of a double (52 in f64)
MaxLn == 2        \* the largest ln(1 / alpha) of an accuracy
MaxCandidates == 3  \* length of the candidate set of sample_from_set
MaxKey == 2       \* the random keys of create_subset range over 0..MaxKey

\* Option<T>: None is the empty sequence, Some(x) the one-element sequence
None == <<>>
Some(x) == <<x>>
IsSome(o) == Len(o) = 1
Unwrap(o) == o[1]

\* Result<T>
Ok(v) == [ok |-> TRUE, val |-> v, err |-> ""]
Err(e) == [ok |-> FALSE, val |-> <<>>, err |-> e]

Min2(a, b) == IF a <= b THEN a ELSE b
Max2(a, b) == IF a >= b THEN a ELSE b

(***************************************************************************)
(* The scalar kernels (utilities::mechanisms), called by the C ABI and by  *)
(* the array wrappers.  They receive the privacy parameters, never the     *)
(* value for the additive mechanisms; "draw" is what the random source     *)
(* yields.                                                                 *)
(***************************************************************************)

\* two-sided geometric noise, censored by the width of the bounds
simple_geometric_kernel(epsilon, sensitivity, min, max, enforce_constant_time, draw) ==
    IF epsilon <= 0 \/ sensitivity < 0 \/ min > max
    THEN Err("InvalidParameter")
    ELSE Ok(Max2(-(max - min), Min2(max - min, draw)))

\* delta is counted in units of 1/DeltaOne, so that 0 < delta < 1 has members
DeltaOne == 4

\* Laplace noise of scale sensitivity / epsilon
laplace_kernel(epsilon, sensitivity, enforce_constant_time, draw) ==
    IF epsilon <= 0 \/ sensitivity < 0 THEN Err("InvalidParameter") ELSE Ok(draw)

\* Gaussian noise
gaussian_kernel(epsilon, delta, sensitivity, analytic, enforce_constant_time, draw) ==
    IF epsilon <= 0 \/ delta <= 0 \/ delta >= DeltaOne \/ sensitivity < 0
    THEN Err("InvalidParameter") ELSE Ok(draw)

\* the binding probability enters the snapping kernel through the effective
\* epsilon, hence through the scale lambda = sensitivity / epsilon' of its noise;
\* a binding probability of the model is the factor by which lambda grows
snapping_noise(binding_probability, draw) ==
    IF IsSome(binding_probability) THEN draw * Unwrap(binding_probability) ELSE draw

\* the snapping kernel receives the value and returns the release, clipped to
\* [min, max]
snapping_kernel(value, epsilon, sensitivity, min, max, binding_probability, enforce_constant_time, draw) ==
    IF epsilon <= 0 \/ sensitivity < 0 \/ min >= max THEN Err("InvalidParameter")
    ELSE Ok(Max2(min, Min2(max, Max2(min, Min2(max, value))
                               + snapping_noise(binding_probability, draw))))

(***************************************************************************)
(* C ABI (ffi-rust/src/direct_api.rs).  unwrap() of a kernel error aborts. *)
(***************************************************************************)
Ints == (-MaxAbs)..MaxAbs
Draws == (-MaxDraw)..MaxDraw

\* what a C ABI function does with the Result of its kernel: unwrap() returns
\* the value of Ok and aborts on Err
Returns(v) == [outcome |-> "return", result |-> v]
Aborts == [outcome |-> "abort", result |-> 0]

laplace_mechanism(value, epsilon, sensitivity, enforce_constant_time, draw) ==
    LET k == laplace_kernel(epsilon, sensitivity, enforce_constant_time, draw)
    IN  IF k.ok THEN Returns(value + k.val) ELSE Aborts

gaussian_mechanism(value, epsilon, delta, sensitivity, analytic, enforce_constant_time, draw) ==
    LET k == gaussian_kernel(epsilon, delta, sensitivity, analytic, enforce_constant_time, draw)
    IN  IF k.ok THEN Returns(value + k.val) ELSE Aborts

simple_geometric_mechanism(value, epsilon, sensitivity, min, max, enforce_constant_time, draw) ==
    LET k == simple_geometric_kernel(epsilon, sensitivity, min, max, enforce_constant_time, draw)
    IN  IF k.ok THEN [outcome |-> "return", result |-> value + k.val]
                ELSE [outcome |-> "abort", result |-> 0]

snapping_mechanism_AddsValue(value, epsilon, sensitivity, min, max, enforce_constant_time, draw) ==
    LET k == snapping_kernel(value, epsilon, sensitivity, min, max, None, enforce_constant_time, draw)
    IN  IF k.ok THEN Returns(value + k.val) ELSE Aborts

snapping_mechanism(value, epsilon, sensitivity, min, max, enforce_constant_time, draw) ==
    LET k == snapping_kernel(value, epsilon, sensitivity, min, max, None, enforce_constant_time, draw)
    IN  IF k.ok THEN Returns(k.val) ELSE Aborts

snapping_mechanism_binding(value, epsilon, sensitivity, min, max, binding_probability, enforce_constant_time, draw) ==
    LET k == snapping_kernel(value, epsilon, sensitivity, min, max, Some(binding_probability), enforce_constant_time, draw)
    IN  IF k.ok THEN Returns(k.val) ELSE Aborts

\* the calls the C ABI can receive
FfiCalls ==
    [op : {"simple_geometric_mechanism"}, pc : {"call"}, value : Ints,
     epsilon : {0, 1}, sensitivity : {-1, 1}, min : Ints, max : Ints,
     enforce_constant_time : BOOLEAN]
    \cup
    [op : {"laplace_mechanism"}, pc : {"call"}, value : Ints,
     epsilon : {0, 1}, sensitivity : {-1, 1}, enforce_constant_time : BOOLEAN]
    \cup
    [op : {"gaussian_mechanism"}, pc : {"call"}, value : Ints,
     epsilon : {0, 1}, delta : {0, 1}, sensitivity : {-1, 1}, analytic : BOOLEAN,
     enforce_constant_time : BOOLEAN]
    \cup
    [op : {"snapping_mechanism"}, pc : {"call"}, value : Ints,
     epsilon : {0, 1}, sensitivity : {-1, 1}, min : Ints, max : Ints,
     enforce_constant_time : BOOLEAN]
    \cup
    [op : {"snapping_mechanism_binding"}, pc : {"call"}, value : Ints,
     epsilon : {0, 1}, sensitivity : {-1, 1}, min : Ints, max : Ints,
     binding_probability : {1, 2}, enforce_constant_time : BOOLEAN]

\* the record of a finished C ABI call: the call, the draw of the random
\* source and what the function did
FfiDone(call, draw, r) ==
    [op |-> call.op, pc |-> "done", call |-> call, draw |-> draw,
     outcome |-> r.outcome, result |-> r.result]

FfiLaplace ==
    /\ ffi.op = "laplace_mechanism"
    /\ ffi.pc = "call"
    /\ \E draw \in Draws :
          ffi' = FfiDone(ffi, draw,
                     laplace_mechanism(ffi.value, ffi.epsilon, ffi.sensitivity,
                                       ffi.enforce_constant_time, draw))
    /\ UNCHANGED <<prop, eval, acct, util, comp>>

FfiGaussian ==
    /\ ffi.op = "gaussian_mechanism"
    /\ ffi.pc = "call"
    /\ \E draw \in Draws :
          ffi' = FfiDone(ffi, draw,
                     gaussian_mechanism(ffi.value, ffi.epsilon, ffi.delta, ffi.sensitivity,
                                        ffi.analytic, ffi.enforce_constant_time, draw))
    /\ UNCHANGED <<prop, eval, acct, util, comp>>

FfiSimpleGeometric ==
    /\ ffi.op = "simple_geometric_mechanism"
    /\ ffi.pc = "call"
    /\ \E draw \in Draws :
          LET r == simple_geometric_mechanism(ffi.value, ffi.epsilon, ffi.sensitivity,
                       ffi.min, ffi.max, ffi.enforce_constant_time, draw)
          IN  ffi' = [op |-> ffi.op, pc |-> "done", value |-> ffi.value,
                      epsilon |-> ffi.epsilon, sensitivity |-> ffi.sensitivity,
                      min |-> ffi.min, max |-> ffi.max,
                      enforce_constant_time |-> ffi.enforce_constant_time,
                      draw |-> draw, outcome |-> r.outcome, result |-> r.result]
    /\ UNCHANGED <<prop, eval, acct, util, comp>>

FfiSnapping ==
    /\ ffi.op = "snapping_mechanism"
    /\ ffi.pc = "call"
    /\ \E draw \in Draws :
          ffi' = FfiDone(ffi, draw,
                     snapping_mechanism(ffi.value, ffi.epsilon, ffi.sensitivity, ffi.min,
                                        ffi.max, ffi.enforce_constant_time, draw))
    /\ UNCHANGED <<prop, eval, acct, util, comp>>

FfiSnappingBinding ==
    /\ ffi.op = "snapping_mechanism_binding"
    /\ ffi.pc = "call"
    /\ \E draw \in Draws :
          ffi' = FfiDone(ffi, draw,
                     snapping_mechanism_binding(ffi.value, ffi.epsilon, ffi.sensitivity,
                         ffi.min, ffi.max, ffi.binding_probability,
                         ffi.enforce_constant_time, draw))
    /\ UNCHANGED <<prop, eval, acct, util, comp>>

InitFfi ==
    /\ ffi \in FfiCalls
    /\ prop = Idle
    /\ eval = Idle
    /\ acct = Idle
    /\ util = Idle
    /\ comp = Idle

NextFfi ==
    \/ FfiLaplace
    \/ FfiGaussian
    \/ FfiSimpleGeometric
    \/ FfiSnapping
    \/ FfiSnappingBinding

SpecFfi == InitFfi /\ [][NextFfi]_vars

(***************************************************************************)
(* Validator: LaplaceMechanism::propagate_property                         *)
(* (validator-rust/src/components/laplace_mechanism.rs).                   *)
(*                                                                         *)
(* A PrivacyUsage is [epsilon, delta].  The properties of an array are a   *)
(* record of the fields below; the aggregator of a property carries what   *)
(* its component's compute_sensitivity returns and its lipschitz constants. *)
(***************************************************************************)
StrictEpsilonBound == 1

Usages ==
    {[epsilon |-> 0, delta |-> 0], [epsilon |-> 1, delta |-> 0],
     [epsilon |-> 1, delta |-> 1], [epsilon |-> 2, delta |-> DeltaOne]}

\* the sequences over S of length 0..n
SeqUpTo(S, n) == UNION {[1..k -> S] : k \in 0..n}

\* what aggregator.component.compute_sensitivity returns for KNorm(1)
Sensitivities ==
    { Err("sensitivity is not computable"),
      Ok([variant |-> "Array", data_type |-> "F64", values |-> <<1>>]),
      Ok([variant |-> "Array", data_type |-> "I64", values |-> <<1>>]) }

Aggregators ==
    [sensitivity : Sensitivities, lipschitz_constant : {<<1>>, <<2>>}]

ArrayProperties ==
    [data_type : {"F64", "I64"}, releasable : BOOLEAN,
     aggregator : {None} \cup {Some(a) : a \in Aggregators},
     num_records : {None, Some(100)}, num_columns : {Some(1)},
     c_stability : {<<1>>}, nullity : {FALSE}, dataset_id : {Some(7)},
     nature : {Some([lower |-> <<0>>, upper |-> <<10>>])}]

\* the entry "data" of a NodeProperties map: absent, an array, or another variant
DataEntries ==
    {None, Some([variant |-> "Dataframe"])}
        \cup {Some([variant |-> "Array", array |-> p]) : p \in ArrayProperties}

PrivacyDefinitions ==
    {None} \cup
    {Some(d) : d \in [protect_floating_point : BOOLEAN, protect_elapsed_time : {FALSE},
                      group_size : 0..2, strict_parameter_checks : BOOLEAN]}

\* impl Add for PrivacyUsage, folded over the declared usages (fold1)
RECURSIVE SumUsages(_)
SumUsages(usages) ==
    IF Len(usages) = 1 THEN usages[1]
    ELSE LET l == SumUsages(SubSeq(usages, 1, Len(usages) - 1))
             r == usages[Len(usages)]
         IN  [epsilon |-> l.epsilon + r.epsilon, delta |-> l.delta + r.delta]

\* utilities::privacy::privacy_usage_check
privacy_usage_check(privacy_usage, num_records, strict_parameter_checks) ==
    IF privacy_usage.epsilon <= 0 \/ privacy_usage.delta < 0 \/ privacy_usage.delta >= DeltaOne
    THEN Err("PrivacyBudgetInvalid")
    ELSE Ok(IF strict_parameter_checks /\ privacy_usage.epsilon > StrictEpsilonBound
            THEN <<"Warning: epsilon exceeds the strict bound">> ELSE <<>>)

\* if any lipschitz constant is not 1, the sensitivities are scaled: they must be f64
ScaledSensitivity(aggregator, sensitivity_values) ==
    IF \E i \in 1..Len(aggregator.lipschitz_constant) : aggregator.lipschitz_constant[i] # 1
    THEN IF sensitivity_values.variant = "Array" /\ sensitivity_values.data_type = "F64"
         THEN Ok([sensitivity_values EXCEPT !.values =
                    [i \in 1..Min2(Len(@), Len(aggregator.lipschitz_constant)) |->
                        @[i] * aggregator.lipschitz_constant[i]]])
         ELSE Err("sensitivity: must be an f64 array")
    ELSE Ok(sensitivity_values)

\* a propagate_property that sets releasable and forgets to clear the aggregator
ReleasedProperty_KeepsAggregator(data_property) ==
    [data_property EXCEPT !.releasable = TRUE]

\* the released property forgetting the number of records
ReleasedProperty_ForgetsRecords(data_property) ==
    [data_property EXCEPT !.releasable = TRUE, !.aggregator = None, !.num_records = None]

\* lines 72-75: the returned property is the data property, released
ReleasedProperty(data_property) ==
    [data_property EXCEPT !.releasable = TRUE, !.aggregator = None]

\* lines 35-75: what follows the checks of the privacy definition
PropagateData(self_privacy_usage, privacy_definition, properties) ==
    IF ~IsSome(properties.data) THEN Err("data: missing")
    ELSE IF Unwrap(properties.data).variant # "Array" THEN Err("data: value must be an array")
    ELSE LET data_property == Unwrap(properties.data).array IN
    IF data_property.data_type # "F64" THEN Err("data: atomic type must be float")
    ELSE IF ~IsSome(data_property.aggregator) THEN Err("aggregator: missing")
    ELSE LET aggregator == Unwrap(data_property.aggregator) IN
    IF ~aggregator.sensitivity.ok THEN Err(aggregator.sensitivity.err)
    ELSE LET sensitivity_values == ScaledSensitivity(aggregator, aggregator.sensitivity.val) IN
    IF ~sensitivity_values.ok THEN Err(sensitivity_values.err)
    ELSE IF sensitivity_values.val.data_type # "F64" THEN Err("sensitivity: must be an f64 array")
    ELSE IF Len(self_privacy_usage) = 0 THEN Err("privacy_usage: must be defined")
    ELSE LET privacy_usage == SumUsages(self_privacy_usage)
             warnings == privacy_usage_check(privacy_usage, data_property.num_records,
                                             privacy_definition.strict_parameter_checks)
         IN  IF ~warnings.ok THEN Err(warnings.err)
             ELSE Ok([properties |-> ReleasedProperty(data_property),
                      warnings |-> warnings.val])

\* line 28: the error of a Laplace mechanism under floating-point protection
FloatingPointError ==
    "Floating-point protections are enabled. The laplace mechanism is susceptible to floating-point attacks."

\* a propagate_property that examines the data before the floating-point flag
propagate_property_DataFirst(self_privacy_usage, privacy_definition, properties) ==
    IF ~IsSome(privacy_definition) THEN Err("privacy_definition must be defined")
    ELSE IF Unwrap(privacy_definition).group_size = 0
         THEN Err("group size must be greater than zero")
    ELSE LET r == PropagateData(self_privacy_usage, Unwrap(privacy_definition), properties)
         IN  IF ~r.ok THEN r
             ELSE IF Unwrap(privacy_definition).protect_floating_point
                  THEN Err(FloatingPointError)
             ELSE r

\* lines 24-33: the checks of the privacy definition come first
propagate_property(self_privacy_usage, privacy_definition, properties) ==
    IF ~IsSome(privacy_definition) THEN Err("privacy_definition must be defined")
    ELSE IF Unwrap(privacy_definition).protect_floating_point
         THEN Err(FloatingPointError)
    ELSE IF Unwrap(privacy_definition).group_size = 0
         THEN Err("group size must be greater than zero")
    ELSE PropagateData(self_privacy_usage, Unwrap(privacy_definition), properties)

PropCalls ==
    [op : {"propagate_property"}, pc : {"call"},
     self : [privacy_usage : SeqUpTo(Usages, MaxUsages)],
     privacy_definition : PrivacyDefinitions,
     properties : [data : DataEntries]]

\* one call of propagate_property; the arguments are borrowed (&) and are
\* the same after the call
PropagateProperty ==
    /\ prop.op = "propagate_property"
    /\ prop.pc = "call"
    /\ prop' = [op |-> prop.op, pc |-> "done", self |-> prop.self,
                privacy_definition |-> prop.privacy_definition,
                properties |-> prop.properties,
                result |-> propagate_property(prop.self.privacy_usage,
                               prop.privacy_definition, prop.properties)]
    /\ UNCHANGED <<ffi, eval, acct, util, comp>>

InitValidator ==
    /\ ffi = Idle
    /\ prop \in PropCalls
    /\ eval = Idle
    /\ acct = Idle
    /\ util = Idle
    /\ comp = Idle

NextValidator == PropagateProperty

SpecValidator == InitValidator /\ [][NextValidator]_vars

(***************************************************************************)
(* Arrays (ndarray::ArrayD).  An array is [atomic, shape, data]: data holds *)
(* the cells in row-major order.                                           *)
(***************************************************************************)
RECURSIVE Product(_)
Product(shape) ==
    IF Len(shape) = 0 THEN 1 ELSE shape[1] * Product(Tail(shape))

\* get_num_columns taking the length of a vector for its number of columns
get_num_columns_OfLength(shape) ==
    IF Len(shape) = 0 THEN Ok(1)
    ELSE IF Len(shape) <= 2 THEN Ok(shape[Len(shape)])
    ELSE Err("data may be at most 2-dimensional")

\* utilities::get_num_columns
get_num_columns(shape) ==
    IF Len(shape) <= 1 THEN Ok(1)
    ELSE IF Len(shape) = 2 THEN Ok(shape[2])
    ELSE Err("data may be at most 2-dimensional")

\* ndarray gencolumns(): the lanes along axis 0, each the sequence of the
\* row-major positions of its cells; a 0-dimensional array is one lane of one cell
Gencolumns(shape) ==
    IF Len(shape) = 0 THEN << <<1>> >>
    ELSE LET rest == Product(Tail(shape))
         IN  [k \in 1..rest |-> [i \in 1..shape[1] |-> (i - 1) * rest + k]]

\* Iterator::zip stops at the shorter of the two
ZipLen(a, b) == Min2(Len(a), Len(b))

RECURSIVE Flatten(_)
Flatten(seqs) ==
    IF Len(seqs) = 0 THEN <<>> ELSE Head(seqs) \o Flatten(Tail(seqs))

\* utilities::privacy::spread_privacy_usage: one usage per column
spread_privacy_usage(usages, length) ==
    IF Len(usages) = length THEN Ok(usages)
    ELSE IF Len(usages) # 1 THEN Err("privacy parameters: one, or one per column, is required")
    ELSE Ok([i \in 1..length |-> usages[1]])

\* utilities::privacy::get_epsilon, get_delta, mapped over the usages
Epsilons(usages) == [i \in 1..Len(usages) |-> usages[i].epsilon]
Deltas(usages) == [i \in 1..Len(usages) |-> usages[i].delta]

\* what the random source yields at the k-th kernel call of an evaluate
Seeds == 0..MaxDraw
Draw(seed, k) == ((seed + k) % (2 * MaxDraw + 1)) - MaxDraw

\* enforce_constant_time of an evaluate
EnforceConstantTime(privacy_definition) ==
    IF IsSome(privacy_definition) THEN Unwrap(privacy_definition).protect_elapsed_time
    ELSE FALSE

(***************************************************************************)
(* The cell loop of an evaluate: try_for_each over the zipped columns and, *)
(* within a column, over the zipped cells.  A visit is one element of the  *)
(* zip: the position of the data cell and the arguments the kernel gets    *)
(* there.  The loop stops at the first kernel error.                       *)
(***************************************************************************)
KernelCall(mechanism, visit, v, analytic, enforce_constant_time, draw) ==
    IF mechanism = "LaplaceMechanism"
    THEN laplace_kernel(visit.epsilon, visit.sens, enforce_constant_time, draw)
    ELSE IF mechanism = "GaussianMechanism"
    THEN gaussian_kernel(visit.epsilon, visit.delta, visit.sens, analytic,
                         enforce_constant_time, draw)
    ELSE IF mechanism = "SimpleGeometricMechanism"
    THEN simple_geometric_kernel(visit.epsilon, visit.sens, visit.lower, visit.upper,
                                 enforce_constant_time, draw)
    ELSE snapping_kernel(v, visit.epsilon, visit.sens, visit.lower, visit.upper,
                         visit.binding_probability, enforce_constant_time, draw)

\* the closure applied to the kernel's result: *v += noise for the additive
\* mechanisms, *v = privatized for Snapping
CellUpdate(mechanism, v, k) ==
    IF mechanism = "SnappingMechanism" THEN k ELSE v + k

RECURSIVE CellLoop(_, _, _, _, _, _)
CellLoop(mechanism, visits, acc, analytic, enforce_constant_time, seed) ==
    IF Len(visits) = 0 \/ acc.err # "" THEN acc
    ELSE LET visit == Head(visits)
             k == KernelCall(mechanism, visit, acc.data[visit.cell], analytic,
                             enforce_constant_time, Draw(seed, acc.kernel_calls))
             next == [data |-> IF k.ok
                               THEN [acc.data EXCEPT ![visit.cell] = CellUpdate(mechanism, @, k.val)]
                               ELSE acc.data,
                      calls |-> [acc.calls EXCEPT ![visit.cell] = @ + 1],
                      kernel_calls |-> acc.kernel_calls + 1,
                      kernel_log |-> Append(acc.kernel_log, k),
                      err |-> IF k.ok THEN "" ELSE k.err]
         IN  CellLoop(mechanism, Tail(visits), next, analytic, enforce_constant_time, seed)

LoopStart(data) ==
    [data |-> data, calls |-> [i \in 1..Len(data) |-> 0], kernel_calls |-> 0,
     kernel_log |-> <<>>, err |-> ""]

\* Array::Float => data, Array::Int => data as Float, otherwise an error
IsNumeric(array) == array.atomic \in {"Float", "Int"}

ReleaseNode(atomic, shape, data, usages) ==
    [value |-> [atomic |-> atomic, shape |-> shape, data |-> data],
     privacy_usages |-> Some(usages), public |-> TRUE]

\* what an evaluate returns, with the kernel calls it made on each data cell and
\* what each kernel call returned, in the order of the calls
Evaluated(result, loop) ==
    [result |-> result, calls |-> loop.calls, kernel_calls |-> loop.kernel_calls,
     kernel_log |-> loop.kernel_log]

(***************************************************************************)
(* impl Evaluable for LaplaceMechanism (mechanisms.rs lines 14-54)         *)
(***************************************************************************)
\* lines 37-41: data columns zip (sensitivity columns zip epsilon)
LaplaceVisits(data, sensitivity, epsilon) ==
    LET dcols == Gencolumns(data.shape)
        scols == Gencolumns(sensitivity.shape)
        ncols == Min2(Len(dcols), Min2(Len(scols), Len(epsilon)))
    IN  Flatten([j \in 1..ncols |->
            [i \in 1..ZipLen(dcols[j], scols[j]) |->
                [cell |-> dcols[j][i], sens |-> sensitivity.data[scols[j][i]],
                 epsilon |-> epsilon[j]]]])

\* LaplaceMechanism::evaluate releasing what the loop has noised when a kernel
\* call fails
LaplaceEvaluate_Partial(self, privacy_definition, arguments, seed) ==
    LET data == arguments.data
        num_columns == get_num_columns(data.shape)
        sensitivity == arguments.sensitivity
        none == LoopStart(data.data)
    IN  IF ~num_columns.ok THEN Evaluated(Err(num_columns.err), none)
        ELSE IF ~IsNumeric(data) THEN Evaluated(Err("data must be numeric"), none)
        ELSE IF sensitivity.atomic # "Float"
             THEN Evaluated(Err("sensitivity: atomic type must be float"), none)
        ELSE LET usages == spread_privacy_usage(self.privacy_usage, num_columns.val) IN
        IF ~usages.ok THEN Evaluated(Err(usages.err), none)
        ELSE LET loop == CellLoop("LaplaceMechanism",
                             LaplaceVisits(data, sensitivity, Epsilons(usages.val)),
                             none, FALSE, EnforceConstantTime(privacy_definition), seed)
             IN  Evaluated(Ok(ReleaseNode("Float", data.shape, loop.data, usages.val)), loop)

LaplaceEvaluate(self, privacy_definition, arguments, seed) ==
    LET data == arguments.data
        num_columns == get_num_columns(data.shape)
        sensitivity == arguments.sensitivity
        none == LoopStart(data.data)
    IN  IF ~num_columns.ok THEN Evaluated(Err(num_columns.err), none)
        ELSE IF ~IsNumeric(data) THEN Evaluated(Err("data must be numeric"), none)
        ELSE IF sensitivity.atomic # "Float"
             THEN Evaluated(Err("sensitivity: atomic type must be float"), none)
        ELSE LET usages == spread_privacy_usage(self.privacy_usage, num_columns.val) IN
        IF ~usages.ok THEN Evaluated(Err(usages.err), none)
        ELSE LET loop == CellLoop("LaplaceMechanism",
                             LaplaceVisits(data, sensitivity, Epsilons(usages.val)),
                             none, FALSE, EnforceConstantTime(privacy_definition), seed)
             IN  IF loop.err # "" THEN Evaluated(Err(loop.err), loop)
                 ELSE Evaluated(Ok(ReleaseNode("Float", data.shape, loop.data, usages.val)),
                                loop)

(***************************************************************************)
(* impl Evaluable for GaussianMechanism (mechanisms.rs lines 56-99)        *)
(***************************************************************************)
\* lines 81-85: (data columns zip sensitivity columns) zip (epsilon zip delta)
GaussianVisits(data, sensitivity, epsilon, delta) ==
    LET dcols == Gencolumns(data.shape)
        scols == Gencolumns(sensitivity.shape)
        ncols == Min2(ZipLen(dcols, scols), ZipLen(epsilon, delta))
    IN  Flatten([j \in 1..ncols |->
            [i \in 1..ZipLen(dcols[j], scols[j]) |->
                [cell |-> dcols[j][i], sens |-> sensitivity.data[scols[j][i]],
                 epsilon |-> epsilon[j], delta |-> delta[j]]]])

GaussianEvaluate(self, privacy_definition, arguments, seed) ==
    LET data == arguments.data
        num_columns == get_num_columns(data.shape)
        sensitivity == arguments.sensitivity
        none == LoopStart(data.data)
    IN  IF ~num_columns.ok THEN Evaluated(Err(num_columns.err), none)
        ELSE IF ~IsNumeric(data) THEN Evaluated(Err("data must be numeric"), none)
        ELSE IF sensitivity.atomic # "Float"
             THEN Evaluated(Err("sensitivity: atomic type must be float"), none)
        ELSE LET usages == spread_privacy_usage(self.privacy_usage, num_columns.val) IN
        IF ~usages.ok THEN Evaluated(Err(usages.err), none)
        ELSE LET loop == CellLoop("GaussianMechanism",
                             GaussianVisits(data, sensitivity, Epsilons(usages.val),
                                            Deltas(usages.val)),
                             none, self.analytic, EnforceConstantTime(privacy_definition),
                             seed)
             IN  IF loop.err # "" THEN Evaluated(Err(loop.err), loop)
                 ELSE Evaluated(Ok(ReleaseNode("Float", data.shape, loop.data, usages.val)),
                                loop)

(***************************************************************************)
(* impl Evaluable for SimpleGeometricMechanism (mechanisms.rs lines 101-142) *)
(***************************************************************************)
\* utilities::array::broadcast_ndarray: a per-column argument is one value, or
\* one value per column, or already of the shape of the data
broadcast_ndarray(value, shape) ==
    LET columns == IF Len(shape) = 2 THEN shape[2] ELSE 1
        column(k) == ((k - 1) % columns) + 1
    IN  IF value.shape = shape THEN Ok(value)
        ELSE IF Len(value.data) = 1
             THEN Ok([atomic |-> value.atomic, shape |-> shape,
                      data |-> [k \in 1..Product(shape) |-> value.data[1]]])
        ELSE IF Len(value.data) = columns
             THEN Ok([atomic |-> value.atomic, shape |-> shape,
                      data |-> [k \in 1..Product(shape) |-> value.data[column(k)]]])
        ELSE Err("ShapeMismatch")

\* lines 122-127: (data zip (sensitivity zip epsilon)) zip (lower zip upper)
SimpleGeometricVisits(data, sensitivity, epsilon, lower, upper) ==
    LET dcols == Gencolumns(data.shape)
        scols == Gencolumns(sensitivity.shape)
        lcols == Gencolumns(lower.shape)
        ucols == Gencolumns(upper.shape)
        ncols == Min2(Min2(Len(dcols), ZipLen(scols, epsilon)), ZipLen(lcols, ucols))
    IN  Flatten([j \in 1..ncols |->
            [i \in 1..Min2(ZipLen(dcols[j], scols[j]), ZipLen(lcols[j], ucols[j])) |->
                [cell |-> dcols[j][i], sens |-> sensitivity.data[scols[j][i]],
                 epsilon |-> epsilon[j],
                 lower |-> lower.data[lcols[j][i]], upper |-> upper.data[ucols[j][i]]]]])

SimpleGeometricEvaluate(self, privacy_definition, arguments, seed) ==
    LET data == arguments.data
        num_columns == get_num_columns(data.shape)
        sensitivity == arguments.sensitivity
        none == LoopStart(data.data)
    IN  IF ~num_columns.ok THEN Evaluated(Err(num_columns.err), none)
        ELSE IF data.atomic # "Int" THEN Evaluated(Err("data: atomic type must be int"), none)
        ELSE IF sensitivity.atomic # "Float"
             THEN Evaluated(Err("sensitivity: atomic type must be float"), none)
        ELSE LET usages == spread_privacy_usage(self.privacy_usage, num_columns.val) IN
        IF ~usages.ok THEN Evaluated(Err(usages.err), none)
        ELSE IF arguments.lower.atomic # "Int"
             THEN Evaluated(Err("lower: atomic type must be int"), none)
        ELSE LET lower == broadcast_ndarray(arguments.lower, data.shape) IN
        IF ~lower.ok THEN Evaluated(Err(lower.err), none)
        ELSE IF arguments.upper.atomic # "Int"
             THEN Evaluated(Err("upper: atomic type must be int"), none)
        ELSE LET upper == broadcast_ndarray(arguments.upper, data.shape) IN
        IF ~upper.ok THEN Evaluated(Err(upper.err), none)
        ELSE LET loop == CellLoop("SimpleGeometricMechanism",
                             SimpleGeometricVisits(data, sensitivity, Epsilons(usages.val),
                                                   lower.val, upper.val),
                             none, FALSE, EnforceConstantTime(privacy_definition), seed)
             IN  IF loop.err # "" THEN Evaluated(Err(loop.err), loop)
                 ELSE Evaluated(Ok(ReleaseNode("Int", data.shape, loop.data, usages.val)),
                                loop)

(***************************************************************************)
(* impl Evaluable for ExponentialMechanism (mechanisms.rs lines 144-190)   *)
(***************************************************************************)
\* returns one of the candidates it is given, picked by the noised utilities
exponential_kernel(epsilon, sensitivity, candidates, utilities, enforce_constant_time, draw) ==
    IF epsilon <= 0 \/ sensitivity < 0 \/ ZipLen(candidates, utilities) = 0
    THEN Err("InvalidParameter")
    ELSE Ok(candidates[(draw % ZipLen(candidates, utilities)) + 1])

Column(array, lane) == [i \in 1..Len(lane) |-> array.data[lane[i]]]

\* lines 164-172: the kernel results of the zipped columns, collected up to the
\* first error
RECURSIVE ExponentialCollect(_, _, _, _)
ExponentialCollect(visits, acc, enforce_constant_time, seed) ==
    IF Len(visits) = 0 \/ acc.err # "" THEN acc
    ELSE LET visit == Head(visits)
             k == exponential_kernel(visit.epsilon, visit.sens, visit.candidates,
                      visit.utilities, enforce_constant_time,
                      Draw(seed, acc.kernel_calls) + MaxDraw)
         IN  ExponentialCollect(Tail(visits),
                 [release_vec |-> IF k.ok THEN Append(acc.release_vec, k.val)
                                  ELSE acc.release_vec,
                  kernel_calls |-> acc.kernel_calls + 1,
                  kernel_log |-> Append(acc.kernel_log, k),
                  err |-> IF k.ok THEN "" ELSE k.err],
                 enforce_constant_time, seed)

\* (candidate columns zip utility columns) zip (sensitivity zip epsilon)
ExponentialVisits(candidates, utilities, sensitivity, epsilon) ==
    LET ccols == Gencolumns(candidates.shape)
        ucols == Gencolumns(utilities.shape)
        ncols == Min2(ZipLen(ccols, ucols), ZipLen(sensitivity, epsilon))
    IN  [j \in 1..ncols |->
            [candidates |-> Column(candidates, ccols[j]),
             utilities |-> Column(utilities, ucols[j]),
             sens |-> sensitivity[j], epsilon |-> epsilon[j]]]

\* ExponentialMechanism::evaluate releasing the candidate of the last column
ExponentialEvaluate_LastColumn(self, privacy_definition, arguments, seed) ==
    LET candidates == arguments.candidates
        no_calls == [i \in 1..Len(candidates.data) |-> 0]
        failed(e) == [result |-> Err(e), calls |-> no_calls, kernel_calls |-> 0,
                      kernel_log |-> <<>>]
    IN  IF arguments.sensitivity.atomic # "Float"
        THEN failed("sensitivity: atomic type must be float")
        ELSE LET sensitivity == arguments.sensitivity.data
                 usages == spread_privacy_usage(self.privacy_usage, Len(sensitivity))
             IN
        IF ~usages.ok THEN failed(usages.err)
        ELSE IF arguments.utilities.atomic # "Float"
             THEN failed("utilities: atomic type must be float")
        ELSE LET collected == ExponentialCollect(
                     ExponentialVisits(candidates, arguments.utilities, sensitivity,
                                       Epsilons(usages.val)),
                     [release_vec |-> <<>>, kernel_calls |-> 0, kernel_log |-> <<>>,
                      err |-> ""],
                     EnforceConstantTime(privacy_definition), seed)
             IN  IF collected.err # ""
                 THEN [result |-> Err(collected.err), calls |-> no_calls,
                       kernel_calls |-> collected.kernel_calls,
                       kernel_log |-> collected.kernel_log]
                 ELSE IF Len(collected.release_vec) = 0
                 THEN [result |-> Err("panic: removal index (is 0) should be < len (is 0)"),
                       calls |-> no_calls, kernel_calls |-> collected.kernel_calls,
                       kernel_log |-> collected.kernel_log]
                 ELSE [result |-> Ok(ReleaseNode(candidates.atomic, <<>>,
                                         <<collected.release_vec[Len(collected.release_vec)]>>, usages.val)),
                       calls |-> no_calls, kernel_calls |-> collected.kernel_calls,
                       kernel_log |-> collected.kernel_log]

ExponentialEvaluate(self, privacy_definition, arguments, seed) ==
    LET candidates == arguments.candidates
        no_calls == [i \in 1..Len(candidates.data) |-> 0]
        failed(e) == [result |-> Err(e), calls |-> no_calls, kernel_calls |-> 0,
                      kernel_log |-> <<>>]
    IN  IF arguments.sensitivity.atomic # "Float"
        THEN failed("sensitivity: atomic type must be float")
        ELSE LET sensitivity == arguments.sensitivity.data
                 usages == spread_privacy_usage(self.privacy_usage, Len(sensitivity))
             IN
        IF ~usages.ok THEN failed(usages.err)
        ELSE IF arguments.utilities.atomic # "Float"
             THEN failed("utilities: atomic type must be float")
        ELSE LET collected == ExponentialCollect(
                     ExponentialVisits(candidates, arguments.utilities, sensitivity,
                                       Epsilons(usages.val)),
                     [release_vec |-> <<>>, kernel_calls |-> 0, kernel_log |-> <<>>,
                      err |-> ""],
                     EnforceConstantTime(privacy_definition), seed)
             IN  IF collected.err # ""
                 THEN [result |-> Err(collected.err), calls |-> no_calls,
                       kernel_calls |-> collected.kernel_calls,
                       kernel_log |-> collected.kernel_log]
                 ELSE IF Len(collected.release_vec) = 0
                 THEN [result |-> Err("panic: removal index (is 0) should be < len (is 0)"),
                       calls |-> no_calls, kernel_calls |-> collected.kernel_calls,
                       kernel_log |-> collected.kernel_log]
                 ELSE [result |-> Ok(ReleaseNode(candidates.atomic, <<>>,
                                         <<collected.release_vec[1]>>, usages.val)),
                       calls |-> no_calls, kernel_calls |-> collected.kernel_calls,
                       kernel_log |-> collected.kernel_log]

(***************************************************************************)
(* impl Evaluable for SnappingMechanism (mechanisms.rs lines 192-258)      *)
(***************************************************************************)
\* utilities::to_nd on the shape: trailing axes of length 1 are removed, or
\* trailing axes are added, until the array has ndim axes
RECURSIVE to_nd(_, _)
to_nd(shape, ndim) ==
    IF Len(shape) = ndim THEN Ok(shape)
    ELSE IF Len(shape) > ndim
         THEN IF shape[Len(shape)] = 1
              THEN to_nd(SubSeq(shape, 1, Len(shape) - 1), ndim)
              ELSE Err("cannot remove non-singleton trailing axis")
    ELSE to_nd(Append(shape, 1), ndim)

\* lines 214-218 and 224-228: a bound as a vector
BoundVector(bound) ==
    IF ~IsNumeric(bound) THEN Err("bound: must be numeric")
    ELSE LET shape == to_nd(bound.shape, 1)
         IN  IF ~shape.ok THEN Err(shape.err) ELSE Ok(bound.data)

\* lines 239-243: (data zip (sensitivity zip epsilon)) zip (lower zip upper)
SnappingVisits(data, sensitivity, epsilon, lower, upper, binding_probability) ==
    LET dcols == Gencolumns(data.shape)
        scols == Gencolumns(sensitivity.shape)
        ecols == Gencolumns(data.shape)
        ncols == Min2(Min2(Len(dcols), ZipLen(scols, ecols)), ZipLen(lower, upper))
    IN  Flatten([j \in 1..ncols |->
            [i \in 1..Min2(Len(dcols[j]), ZipLen(scols[j], ecols[j])) |->
                [cell |-> dcols[j][i], sens |-> sensitivity.data[scols[j][i]],
                 epsilon |-> epsilon[ecols[j][i]],
                 lower |-> lower[j], upper |-> upper[j],
                 binding_probability |-> binding_probability]]])

SnappingEvaluate(self, privacy_definition, arguments, seed) ==
    LET data == arguments.data
        sensitivity == arguments.sensitivity
        none == LoopStart(data.data)
    IN  IF ~IsNumeric(data) THEN Evaluated(Err("data must be numeric"), none)
        ELSE IF sensitivity.atomic # "Float"
             THEN Evaluated(Err("sensitivity: atomic type must be float"), none)
        ELSE LET usages == spread_privacy_usage(self.privacy_usage, Len(sensitivity.data)) IN
        IF ~usages.ok THEN Evaluated(Err(usages.err), none)
        ELSE IF Len(usages.val) # Product(data.shape)
             THEN Evaluated(Err("ShapeError: incompatible shapes"), none)
        ELSE LET num_columns == get_num_columns(data.shape)
                 lower == BoundVector(arguments.lower)
                 upper == BoundVector(arguments.upper)
             IN
        IF ~num_columns.ok THEN Evaluated(Err(num_columns.err), none)
        ELSE IF ~lower.ok THEN Evaluated(Err(lower.err), none)
        ELSE IF num_columns.val # Len(lower.val)
             THEN Evaluated(Err("lower must share the same number of columns as data"), none)
        ELSE IF ~upper.ok THEN Evaluated(Err(upper.err), none)
        ELSE IF num_columns.val # Len(upper.val)
             THEN Evaluated(Err("upper must share the same number of columns as data"), none)
        ELSE LET loop == CellLoop("SnappingMechanism",
                             SnappingVisits(data, sensitivity, Epsilons(usages.val),
                                            lower.val, upper.val,
                                            arguments.binding_probability),
                             none, FALSE, EnforceConstantTime(privacy_definition), seed)
             IN  IF loop.err # "" THEN Evaluated(Err(loop.err), loop)
                 ELSE Evaluated(Ok(ReleaseNode("Float", data.shape, loop.data, usages.val)),
                                loop)

(***************************************************************************)
(* The evaluate calls of the model.                                        *)
(***************************************************************************)
Shapes ==
    {<<>>} \cup {<<n>> : n \in 1..MaxRows}
           \cup {<<r, c>> : r \in 1..MaxRows, c \in 1..MaxCols}

\* the cells of the data hold 0, 1, 2, ... in row-major order
Iota(shape) == [k \in 1..Product(shape) |-> k - 1]

DataArrays(atomic) ==
    {[atomic |-> atomic, shape |-> sh, data |-> Iota(sh)] : sh \in Shapes \cup {<<1, 1, 1>>}}

StrScalar == [atomic |-> "Str", shape |-> <<>>, data |-> <<0>>]
IntScalar == [atomic |-> "Int", shape |-> <<>>, data |-> <<1>>]
FloatScalar == [atomic |-> "Float", shape |-> <<>>, data |-> <<1>>]

\* sensitivities are 1, but for at most one negative cell
SensitivityArrays ==
    {[atomic |-> "Float", shape |-> sh,
      data |-> [k \in 1..Product(sh) |-> IF k = bad THEN -1 ELSE 1]] :
        sh \in Shapes, bad \in 0..2}
    \cup {IntScalar}

\* a bound is a scalar or a vector; column j has the bounds [0, j]
BoundShapes == {<<>>} \cup {<<n>> : n \in 1..MaxCols}
LowerArrays(atomic) ==
    {[atomic |-> atomic, shape |-> sh, data |-> [k \in 1..Product(sh) |-> 0]] :
        sh \in BoundShapes}
UpperArrays(atomic) ==
    {[atomic |-> atomic, shape |-> sh, data |-> [k \in 1..Product(sh) |-> k]] :
        sh \in BoundShapes}

\* the declared privacy_usage of a node: none, one, or one per column
DeclaredUsages ==
    {[i \in 1..n |-> [epsilon |-> i, delta |-> 1]] : n \in 0..MaxUsages}

EvalDefinitions ==
    {None} \cup
    {Some(d) : d \in {[protect_floating_point |-> FALSE, protect_elapsed_time |-> TRUE,
                       group_size |-> 1, strict_parameter_checks |-> FALSE],
                      [protect_floating_point |-> TRUE, protect_elapsed_time |-> TRUE,
                       group_size |-> 1, strict_parameter_checks |-> FALSE]}}

EvalCalls ==
    [op : {"LaplaceMechanism"}, pc : {"call"},
     self : [privacy_usage : DeclaredUsages],
     privacy_definition : EvalDefinitions,
     arguments : [data : DataArrays("Float") \cup {IntScalar, StrScalar},
                  sensitivity : SensitivityArrays]]
    \cup
    [op : {"GaussianMechanism"}, pc : {"call"},
     self : [privacy_usage : DeclaredUsages, analytic : {FALSE}],
     privacy_definition : EvalDefinitions,
     arguments : [data : DataArrays("Float") \cup {IntScalar, StrScalar},
                  sensitivity : SensitivityArrays]]
    \cup
    [op : {"SimpleGeometricMechanism"}, pc : {"call"},
     self : [privacy_usage : DeclaredUsages],
     privacy_definition : EvalDefinitions,
     arguments : [data : DataArrays("Int") \cup {FloatScalar},
                  sensitivity : SensitivityArrays,
                  lower : LowerArrays("Int"), upper : UpperArrays("Int")]]
    \cup
    [op : {"ExponentialMechanism"}, pc : {"call"},
     self : [privacy_usage : DeclaredUsages],
     privacy_definition : EvalDefinitions,
     arguments : [candidates : DataArrays("Int") \cup {StrScalar},
                  sensitivity : SensitivityArrays,
                  utilities : DataArrays("Float") \cup {IntScalar}]]
    \cup
    [op : {"SnappingMechanism"}, pc : {"call"},
     self : [privacy_usage : DeclaredUsages],
     privacy_definition : EvalDefinitions,
     arguments : [data : DataArrays("Float") \cup {IntScalar, StrScalar},
                  sensitivity : SensitivityArrays,
                  lower : LowerArrays("Float"), upper : UpperArrays("Float"),
                  binding_probability : {None, Some(1)}]]

\* the record of a finished evaluate: the call, what it returned and the kernel
\* calls it made
Returned(call, evaluated, seed) ==
    [op |-> call.op, pc |-> "done", self |-> call.self,
     privacy_definition |-> call.privacy_definition, arguments |-> call.arguments,
     seed |-> seed, result |-> evaluated.result, calls |-> evaluated.calls,
     kernel_calls |-> evaluated.kernel_calls, kernel_log |-> evaluated.kernel_log]

EvaluateLaplace ==
    /\ eval.op = "LaplaceMechanism" /\ eval.pc = "call"
    /\ \E seed \in Seeds :
          eval' = Returned(eval, LaplaceEvaluate(eval.self, eval.privacy_definition,
                                                 eval.arguments, seed), seed)
    /\ UNCHANGED <<ffi, prop, acct, util, comp>>

EvaluateGaussian ==
    /\ eval.op = "GaussianMechanism" /\ eval.pc = "call"
    /\ \E seed \in Seeds :
          eval' = Returned(eval, GaussianEvaluate(eval.self, eval.privacy_definition,
                                                  eval.arguments, seed), seed)
    /\ UNCHANGED <<ffi, prop, acct, util, comp>>

EvaluateSimpleGeometric ==
    /\ eval.op = "SimpleGeometricMechanism" /\ eval.pc = "call"
    /\ \E seed \in Seeds :
          eval' = Returned(eval, SimpleGeometricEvaluate(eval.self, eval.privacy_definition,
                                                         eval.arguments, seed), seed)
    /\ UNCHANGED <<ffi, prop, acct, util, comp>>

EvaluateExponential ==
    /\ eval.op = "ExponentialMechanism" /\ eval.pc = "call"
    /\ \E seed \in Seeds :
          eval' = Returned(eval, ExponentialEvaluate(eval.self, eval.privacy_definition,
                                                     eval.arguments, seed), seed)
    /\ UNCHANGED <<ffi, prop, acct, util, comp>>

EvaluateSnapping ==
    /\ eval.op = "SnappingMechanism" /\ eval.pc = "call"
    /\ \E seed \in Seeds :
          eval' = Returned(eval, SnappingEvaluate(eval.self, eval.privacy_definition,
                                                  eval.arguments, seed), seed)
    /\ UNCHANGED <<ffi, prop, acct, util, comp>>

InitEvaluate ==
    /\ ffi = Idle
    /\ prop = Idle
    /\ eval \in EvalCalls
    /\ acct = Idle
    /\ util = Idle
    /\ comp = Idle

NextEvaluate ==
    \/ EvaluateLaplace
    \/ EvaluateGaussian
    \/ EvaluateSimpleGeometric
    \/ EvaluateExponential
    \/ EvaluateSnapping

SpecEvaluate == InitEvaluate /\ [][NextEvaluate]_vars

(***************************************************************************)
(* Privacy accountant: LaplaceMechanism::get_privacy_usage                 *)
(* (laplace_mechanism.rs lines 101-120).                                   *)
(***************************************************************************)
\* PrivacyUsage::effective_to_actual(p, c_stability, group_size), with p = 1
effective_to_actual(usage, c_stability, group_size) ==
    Ok([epsilon |-> usage.epsilon * c_stability * group_size,
        delta |-> usage.delta * c_stability * group_size])

\* lines 112-116: release usages zip c_stability, each converted
ActualUsages(release_usage, c_stability, group_size) ==
    [i \in 1..ZipLen(release_usage, c_stability) |->
        effective_to_actual(release_usage[i], c_stability[i], group_size).val]

get_privacy_usage(self, privacy_definition, release_usage, properties) ==
    IF ~IsSome(properties.data) THEN Err("data: missing")
    ELSE IF Unwrap(properties.data).variant # "Array" THEN Err("data: value must be an array")
    ELSE LET data_property == Unwrap(properties.data).array
         IN  Ok(Some(IF IsSome(release_usage)
                     THEN ActualUsages(Unwrap(release_usage), data_property.c_stability,
                                       privacy_definition.group_size)
                     ELSE self.privacy_usage))

ReleaseUsages == SeqUpTo({[epsilon |-> e, delta |-> 1] : e \in 1..2}, MaxUsages)

AcctProperties ==
    {[data_type |-> "F64", releasable |-> FALSE, aggregator |-> None,
      num_records |-> None, num_columns |-> Some(Len(cs)), c_stability |-> cs,
      nullity |-> FALSE, dataset_id |-> Some(7)] :
        cs \in UNION {[1..n -> 1..2] : n \in 1..MaxCols}}

AcctCalls ==
    [op : {"get_privacy_usage"}, pc : {"call"},
     self : [privacy_usage : DeclaredUsages],
     privacy_definition : [protect_floating_point : {FALSE}, protect_elapsed_time : {FALSE},
                           group_size : 1..2, strict_parameter_checks : {FALSE}],
     release_usage : {None} \cup {Some(u) : u \in ReleaseUsages},
     properties : [data : {None, Some([variant |-> "Dataframe"])}
                          \cup {Some([variant |-> "Array", array |-> p]) :
                                    p \in AcctProperties}]]

GetPrivacyUsage ==
    /\ acct.op = "get_privacy_usage" /\ acct.pc = "call"
    /\ acct' = [op |-> acct.op, pc |-> "done", self |-> acct.self,
                privacy_definition |-> acct.privacy_definition,
                release_usage |-> acct.release_usage, properties |-> acct.properties,
                result |-> get_privacy_usage(acct.self, acct.privacy_definition,
                                             acct.release_usage, acct.properties)]
    /\ UNCHANGED <<ffi, prop, eval, util, comp>>

(***************************************************************************)
(* Accuracy: LaplaceMechanism::privacy_usage_to_accuracy and               *)
(* accuracy_to_privacy_usage (laplace_mechanism.rs lines 123-185).         *)
(*                                                                         *)
(* The doubles of these conversions are not negative; they are modelled    *)
(* exactly: a fraction num / den in lowest terms, +infinity or NaN.        *)
(***************************************************************************)
RECURSIVE GCD(_, _)
GCD(a, b) == IF b = 0 THEN a ELSE GCD(b, a % b)

Num(n, d) == [kind |-> "num", num |-> n \div GCD(n, d), den |-> d \div GCD(n, d)]
Infinity == [kind |-> "inf", num |-> 1, den |-> 0]
NaN == [kind |-> "nan", num |-> 0, den |-> 0]

\* a / b on f64
Fdiv(a, b) ==
    IF a.kind = "nan" \/ b.kind = "nan" THEN NaN
    ELSE IF a.kind = "inf" THEN (IF b.kind = "inf" THEN NaN ELSE Infinity)
    ELSE IF b.kind = "inf" THEN Num(0, 1)
    ELSE IF b.num = 0 THEN (IF a.num = 0 THEN NaN ELSE Infinity)
    ELSE Num(a.num * b.den, a.den * b.num)

\* a * b on f64
Fmul(a, b) ==
    IF a.kind = "nan" \/ b.kind = "nan" THEN NaN
    ELSE IF a.kind = "inf" \/ b.kind = "inf"
         THEN (IF (a.kind = "num" /\ a.num = 0) \/ (b.kind = "num" /\ b.num = 0)
               THEN NaN ELSE Infinity)
    ELSE Num(a.num * b.num, a.den * b.den)

\* an alpha of (0, 1] is modelled by k = ln(1 / alpha), i.e. alpha = e^-k:
\* 0 stands for alpha = 1
Alphas == 0..MaxLn
LnInverse(alpha) == Num(alpha, 1)

\* lines 130-144 and 161-175: the sensitivities of the aggregator of the data
AccuracySensitivities(privacy_definition, properties) ==
    IF ~IsSome(properties.data) THEN Err("data: missing")
    ELSE IF Unwrap(properties.data).variant # "Array" THEN Err("data: value must be an array")
    ELSE LET data_property == Unwrap(properties.data).array IN
    IF ~IsSome(data_property.aggregator) THEN Err("aggregator: missing")
    ELSE LET sensitivity_values == Unwrap(data_property.aggregator).sensitivity IN
    IF ~sensitivity_values.ok THEN sensitivity_values
    ELSE IF sensitivity_values.val.variant # "Array" THEN Err("value must be an array")
    ELSE IF sensitivity_values.val.data_type # "F64" THEN Err("atomic type must be float")
    ELSE Ok(sensitivity_values.val.values)

\* accuracy_to_privacy_usage without the factor ln(1 / alpha)
accuracy_to_privacy_usage_NoAlpha(self, privacy_definition, properties, accuracies) ==
    LET sensitivities == AccuracySensitivities(privacy_definition, properties)
    IN  IF ~sensitivities.ok THEN sensitivities
        ELSE Ok(Some([i \in 1..ZipLen(sensitivities.val, accuracies.values) |->
                [epsilon |-> Fdiv(Num(sensitivities.val[i], 1), accuracies.values[i].value),
                 delta |-> Num(0, 1)]]))

accuracy_to_privacy_usage(self, privacy_definition, properties, accuracies) ==
    LET sensitivities == AccuracySensitivities(privacy_definition, properties)
    IN  IF ~sensitivities.ok THEN sensitivities
        ELSE Ok(Some([i \in 1..ZipLen(sensitivities.val, accuracies.values) |->
                [epsilon |-> Fmul(LnInverse(accuracies.values[i].alpha),
                                  Fdiv(Num(sensitivities.val[i], 1),
                                       accuracies.values[i].value)),
                 delta |-> Num(0, 1)]]))

privacy_usage_to_accuracy(self, privacy_definition, properties, alpha) ==
    LET sensitivities == AccuracySensitivities(privacy_definition, properties)
    IN  IF ~sensitivities.ok THEN sensitivities
        ELSE LET usages == spread_privacy_usage(self.privacy_usage, Len(sensitivities.val))
             IN  IF ~usages.ok THEN usages
                 ELSE LET epsilons == Epsilons(usages.val)
                      IN  Ok(Some([i \in 1..ZipLen(sensitivities.val, epsilons) |->
                              [value |-> Fmul(LnInverse(alpha),
                                              Fdiv(Num(sensitivities.val[i], 1),
                                                   Num(epsilons[i], 1))),
                               alpha |-> alpha]]))

\* the properties of the data of an accuracy call: the aggregator is absent, or
\* its sensitivity is not computable, not f64, or one value 0..2 per column
AccuracyAggregators ==
    {None}
      \cup {Some([sensitivity |-> sv, lipschitz_constant |-> <<1>>]) :
               sv \in {Err("sensitivity is not computable"),
                       Ok([variant |-> "Array", data_type |-> "I64", values |-> <<1>>])}
                      \cup {Ok([variant |-> "Array", data_type |-> "F64", values |-> v]) :
                               v \in UNION {[1..n -> 0..2] : n \in 1..MaxCols}}}

AccuracyProperties ==
    [data : {None, Some([variant |-> "Dataframe"])}
              \cup {Some([variant |-> "Array",
                          array |-> [data_type |-> "F64", releasable |-> FALSE,
                                     aggregator |-> a, num_records |-> None,
                                     num_columns |-> Some(1), c_stability |-> <<1>>,
                                     nullity |-> FALSE, dataset_id |-> Some(7)]]) :
                       a \in AccuracyAggregators}]

\* the accuracies handed to accuracy_to_privacy_usage by a caller
Accuracies ==
    [values : SeqUpTo([value : {Num(0, 1), Num(1, 2)}, alpha : {1}], MaxCols)]

AccuracyDefinitions ==
    [protect_floating_point : {FALSE}, protect_elapsed_time : {FALSE},
     group_size : {1}, strict_parameter_checks : {FALSE}]

AccuracyCalls ==
    [op : {"privacy_usage_to_accuracy"}, pc : {"call"},
     self : [privacy_usage : DeclaredUsages], privacy_definition : AccuracyDefinitions,
     properties : AccuracyProperties, alpha : Alphas]
    \cup
    [op : {"accuracy_to_privacy_usage"}, pc : {"call"},
     self : [privacy_usage : DeclaredUsages], privacy_definition : AccuracyDefinitions,
     properties : AccuracyProperties, accuracies : Accuracies]

PrivacyUsageToAccuracy ==
    /\ acct.op = "privacy_usage_to_accuracy" /\ acct.pc = "call"
    /\ acct' = [op |-> acct.op, pc |-> "done", self |-> acct.self,
                privacy_definition |-> acct.privacy_definition,
                properties |-> acct.properties, alpha |-> acct.alpha,
                result |-> privacy_usage_to_accuracy(acct.self, acct.privacy_definition,
                                                     acct.properties, acct.alpha)]
    /\ UNCHANGED <<ffi, prop, eval, util, comp>>

AccuracyToPrivacyUsage ==
    /\ acct.op = "accuracy_to_privacy_usage" /\ acct.pc = "call"
    /\ acct' = [op |-> acct.op, pc |-> "done", self |-> acct.self,
                privacy_definition |-> acct.privacy_definition,
                properties |-> acct.properties, accuracies |-> acct.accuracies,
                origin |-> None,
                result |-> accuracy_to_privacy_usage(acct.self, acct.privacy_definition,
                                                     acct.properties, acct.accuracies)]
    /\ UNCHANGED <<ffi, prop, eval, util, comp>>

\* the accuracies privacy_usage_to_accuracy returned, converted back by the
\* same component with the same properties
AccuracyToPrivacyUsageOfAccuracy ==
    /\ acct.op = "privacy_usage_to_accuracy" /\ acct.pc = "done"
    /\ acct.result.ok
    /\ LET accuracies == [values |-> Unwrap(acct.result.val)]
       IN  acct' = [op |-> "accuracy_to_privacy_usage", pc |-> "done", self |-> acct.self,
                    privacy_definition |-> acct.privacy_definition,
                    properties |-> acct.properties, accuracies |-> accuracies,
                    origin |-> Some(acct.alpha),
                    result |-> accuracy_to_privacy_usage(acct.self, acct.privacy_definition,
                                                         acct.properties, accuracies)]
    /\ UNCHANGED <<ffi, prop, eval, util, comp>>

InitAccountant ==
    /\ ffi = Idle
    /\ prop = Idle
    /\ eval = Idle
    /\ acct \in AcctCalls \cup AccuracyCalls
    /\ util = Idle
    /\ comp = Idle

NextAccountant ==
    \/ GetPrivacyUsage
    \/ PrivacyUsageToAccuracy
    \/ AccuracyToPrivacyUsage
    \/ AccuracyToPrivacyUsageOfAccuracy

SpecAccountant == InitAccountant /\ [][NextAccountant]_vars

(***************************************************************************)
(* Runtime utilities (runtime-rust/src/utilities/mod.rs).                  *)
(*                                                                         *)
(* A double is its three IEEE-754 fields [sign, exponent, mantissa], the   *)
(* exponent being the raw (biased) one.  The format is scaled down: the    *)
(* mantissa has MantBits bits where f64 has 52, the exponent ExpBits bits  *)
(* where f64 has 11, so that Bias stands for 1023 and the all-ones         *)
(* exponent for 0x7FF.                                                     *)
(***************************************************************************)
Bias == 2^(ExpBits - 1) - 1
RawExponentMax == 2^ExpBits - 1

Floats == [sign : BOOLEAN, exponent : 0..RawExponentMax, mantissa : 0..(2^MantBits - 1)]

IsFinite(x) == x.exponent < RawExponentMax
IsNormal(x) == x.exponent > 0 /\ x.exponent < RawExponentMax

\* ieee754::Ieee754::decompose_raw, recompose_raw: the fields of the bit pattern
decompose_raw(x) == x
recompose_raw(sign, exponent, mantissa) ==
    [sign |-> sign, exponent |-> exponent % (RawExponentMax + 1),
     mantissa |-> mantissa % 2^MantBits]

\* ieee754::Ieee754::decompose, recompose: the same with the bias removed
decompose(x) == [sign |-> x.sign, exponent |-> x.exponent - Bias, mantissa |-> x.mantissa]
recompose(sign, exponent, mantissa) == recompose_raw(sign, exponent + Bias, mantissa)

\* a & b on unsigned integers
RECURSIVE BitAnd(_, _)
BitAnd(a, b) ==
    IF a = 0 \/ b = 0 THEN 0
    ELSE 2 * BitAnd(a \div 2, b \div 2) + (IF a % 2 = 1 /\ b % 2 = 1 THEN 1 ELSE 0)

\* the last arm of the match of get_closest_multiple_of_lambda, with the branch
\* that rounds up leaving the fraction bits of the mantissa in place
RoundWithinMantissa_KeepsFraction(sign, exponent, mantissa) ==
    LET integer_mask == (2^exponent - 1) * 2^(MantBits - exponent)
        integer_mantissa == BitAnd(mantissa, integer_mask)
    IN  IF BitAnd(mantissa, 2^(MantBits - (exponent + 1))) = 0
        THEN [sign |-> sign, exponent |-> exponent, mantissa |-> integer_mantissa]
        ELSE IF integer_mantissa = integer_mask
        THEN [sign |-> sign, exponent |-> exponent + 1, mantissa |-> 0]
        ELSE [sign |-> sign, exponent |-> exponent,
              mantissa |-> mantissa + 2^(MantBits - exponent)]

\* the last arm of the match of get_closest_multiple_of_lambda, never rounding up
RoundWithinMantissa_Truncates(sign, exponent, mantissa) ==
    LET integer_mask == (2^exponent - 1) * 2^(MantBits - exponent)
        integer_mantissa == BitAnd(mantissa, integer_mask)
    IN  [sign |-> sign, exponent |-> exponent, mantissa |-> integer_mantissa]

\* the last arm of the match of get_closest_multiple_of_lambda: round to an
\* integer when the binary point lies within the mantissa (0 <= exponent < 52)
RoundWithinMantissa(sign, exponent, mantissa) ==
    LET integer_mask == (2^exponent - 1) * 2^(MantBits - exponent)
        integer_mantissa == BitAnd(mantissa, integer_mask)
    IN  IF BitAnd(mantissa, 2^(MantBits - (exponent + 1))) = 0
        THEN [sign |-> sign, exponent |-> exponent, mantissa |-> integer_mantissa]
        ELSE IF integer_mantissa = integer_mask
        THEN [sign |-> sign, exponent |-> exponent + 1, mantissa |-> 0]
        ELSE [sign |-> sign, exponent |-> exponent,
              mantissa |-> integer_mantissa + 2^(MantBits - exponent)]

get_closest_multiple_of_lambda(x, m) ==
    LET d == decompose(x)
        exponent == d.exponent - m
        r == IF exponent >= MantBits
             THEN [sign |-> d.sign, exponent |-> exponent, mantissa |-> d.mantissa]
             ELSE IF exponent = -1
             THEN [sign |-> d.sign, exponent |-> 0, mantissa |-> 0]
             ELSE IF exponent < -1
             THEN [sign |-> d.sign, exponent |-> (-Bias) - m, mantissa |-> 0]
             ELSE RoundWithinMantissa(d.sign, exponent, d.mantissa)
    IN  Ok(recompose(r.sign, r.exponent + m, r.mantissa))

\* a String is the sequence of its characters
BinaryDigit(bit) == IF bit = 1 THEN "1" ELSE "0"

\* format!("{:b}", n): the binary digits of n, without leading zeros
RECURSIVE FormatBinary(_)
FormatBinary(n) ==
    IF n < 2 THEN <<BinaryDigit(n)>> ELSE FormatBinary(n \div 2) \o <<BinaryDigit(n % 2)>>

\* format!("{:0width$b}", n): the same, padded with zeros to at least width
FormatBinaryPadded(n, width) ==
    LET digits == FormatBinary(n)
    IN  IF Len(digits) >= width THEN digits
        ELSE [i \in 1..(width - Len(digits)) |-> "0"] \o digits

\* f64_to_binary with the exponent and the mantissa formatted without padding
f64_to_binary_Unpadded(num) ==
    LET d == decompose_raw(num)
        sign_string == FormatBinary(IF d.sign THEN 1 ELSE 0)
        mantissa_string == FormatBinary(d.mantissa)
        exponent_string == FormatBinary(d.exponent)
    IN  sign_string \o exponent_string \o mantissa_string

f64_to_binary(num) ==
    LET d == decompose_raw(num)
        sign_string == FormatBinary(IF d.sign THEN 1 ELSE 0)
        mantissa_string == FormatBinaryPadded(d.mantissa, MantBits)
        exponent_string == FormatBinaryPadded(d.exponent, ExpBits)
    IN  sign_string \o exponent_string \o mantissa_string

\* u16::from_str_radix(s, 2), u64::from_str_radix(s, 2): an error on the empty
\* string and on a character that is not a binary digit
RECURSIVE BinaryValue(_)
BinaryValue(s) ==
    IF s = <<>> THEN 0
    ELSE 2 * BinaryValue(SubSeq(s, 1, Len(s) - 1)) + (IF s[Len(s)] = "1" THEN 1 ELSE 0)

from_str_radix(s) ==
    IF s = <<>> \/ \E i \in 1..Len(s) : s[i] \notin {"0", "1"}
    THEN Err("ParseIntError") ELSE Ok(BinaryValue(s))

\* str::parse::<i32> of one character
parse_sign(s) ==
    IF s[1] \in {"0", "1"} THEN Ok(BinaryValue(s)) ELSE Err("ParseIntError")

\* slicing a string beyond its end panics
Panic == [ok |-> FALSE, val |-> <<>>, err |-> "panic"]

binary_to_f64(binary_string) ==
    IF Len(binary_string) < 1 + ExpBits THEN Panic
    ELSE LET sign == parse_sign(SubSeq(binary_string, 1, 1))
             exponent_int == from_str_radix(SubSeq(binary_string, 2, 1 + ExpBits))
             mantissa_int ==
                 from_str_radix(SubSeq(binary_string, 2 + ExpBits, Len(binary_string)))
         IN  IF ~sign.ok THEN sign
             ELSE IF ~exponent_int.ok THEN exponent_int
             ELSE IF ~mantissa_int.ok THEN mantissa_int
             ELSE Ok(recompose_raw(sign.val # 0, exponent_int.val, mantissa_int.val))

\* strings handed to binary_to_f64 that f64_to_binary did not produce: short
\* ones, one with a character that is no digit, one with a digit too many
BinaryStrings ==
    LET valid == <<"1">> \o FormatBinaryPadded(1, ExpBits) \o FormatBinaryPadded(1, MantBits)
    IN  {<<>>, <<"1">>, SubSeq(valid, 1, 1 + ExpBits), valid, valid \o <<"1">>,
         [valid EXCEPT ![1] = "x"], [valid EXCEPT ![2] = "x"],
         [valid EXCEPT ![Len(valid)] = "x"]}

\* the operators handed to broadcast_map: one that tells its operands and
\* their order apart, and the maximum of the example in the documentation;
\* the row-wise components hand it the minimum and the maximum
Operators == {"pair", "max"}
Apply(operator, l, r) ==
    IF operator = "pair" THEN 100 * l + r
    ELSE IF operator = "min" THEN Min2(l, r)
    ELSE Max2(l, r)

\* the index along axis i of the k-th cell, in row-major order, of an array of
\* the given shape (both counted from 0)
AxisIndex(k, shape, i) ==
    (k \div Product(SubSeq(shape, i + 1, Len(shape)))) % shape[i]

\* the row-major position in an array of shape from of the cell that the
\* k-th cell of its broadcast view of shape to shows: an axis of length 1 of
\* from is repeated (stride 0), every other axis keeps its stride
RECURSIVE ViewOffset(_, _, _, _)
ViewOffset(k, from, to, i) ==
    IF i > Len(from) THEN 0
    ELSE (IF from[i] = to[Len(to) - Len(from) + i]
          THEN AxisIndex(k, to, Len(to) - Len(from) + i)
                  * Product(SubSeq(from, i + 1, Len(from)))
          ELSE 0)
         + ViewOffset(k, from, to, i + 1)

\* ArrayBase::broadcast accepting axes that do not agree: the view is cut or
\* repeated
broadcast_Unchecked(from, data, to) ==
    IF Len(data) = 0 THEN None
    ELSE Some([k \in 1..Product(to) |-> data[(ViewOffset(k - 1, from, to, 1) % Len(data)) + 1]])

\* ArrayBase::broadcast: the view of the array under the shape to, or None when
\* an axis of the array neither has the length of that of to nor length 1
broadcast(from, data, to) ==
    IF Len(from) > Len(to) THEN None
    ELSE IF \E i \in 1..Len(from) :
               from[i] # to[Len(to) - Len(from) + i] /\ from[i] # 1
         THEN None
    ELSE Some([k \in 1..Product(to) |-> data[ViewOffset(k - 1, from, to, 1) + 1]])

\* broadcast_map with the operands handed to the operator in the wrong order
broadcast_map_Swapped(left, right, operator) ==
    LET shape == IF Len(left.shape) < Len(right.shape) THEN right.shape
                 ELSE IF Len(left.shape) > Len(right.shape) THEN left.shape
                 ELSE IF Len(left.data) > Len(right.data) THEN left.shape
                 ELSE right.shape
        lnd == to_nd(left.shape, Len(shape))
        rnd == to_nd(right.shape, Len(shape))
    IN  IF ~lnd.ok THEN Err(lnd.err)
        ELSE IF ~rnd.ok THEN Err(rnd.err)
        ELSE LET l == broadcast(lnd.val, left.data, shape)
                 r == broadcast(rnd.val, right.data, shape)
             IN  IF l = None THEN Err("could not broadcast left argument")
                 ELSE IF r = None THEN Err("could not broadcast right argument")
                 ELSE Ok([atomic |-> left.atomic, shape |-> shape,
                          data |-> [k \in 1..Product(shape) |->
                                       Apply(operator, Unwrap(r)[k], Unwrap(l)[k])]])

broadcast_map(left, right, operator) ==
    LET shape == IF Len(left.shape) < Len(right.shape) THEN right.shape
                 ELSE IF Len(left.shape) > Len(right.shape) THEN left.shape
                 ELSE IF Len(left.data) > Len(right.data) THEN left.shape
                 ELSE right.shape
        lnd == to_nd(left.shape, Len(shape))
        rnd == to_nd(right.shape, Len(shape))
    IN  IF ~lnd.ok THEN Err(lnd.err)
        ELSE IF ~rnd.ok THEN Err(rnd.err)
        ELSE LET l == broadcast(lnd.val, left.data, shape)
                 r == broadcast(rnd.val, right.data, shape)
             IN  IF l = None THEN Err("could not broadcast left argument")
                 ELSE IF r = None THEN Err("could not broadcast right argument")
                 ELSE Ok([atomic |-> left.atomic, shape |-> shape,
                          data |-> [k \in 1..Product(shape) |->
                                       Apply(operator, Unwrap(l)[k], Unwrap(r)[k])]])

\* the operands of broadcast_map: every shape of rank 0, 1 (the empty vector and
\* one longer than a column included) and 2, and one of rank 3; the cells of a
\* left operand hold 0, 1, 2, ..., those of a right operand 1, 3, 5, ...
OperandShapes ==
    Shapes \cup {<<0>>, <<MaxRows + 1>>, <<1, 1, 1>>}
LeftOperands ==
    {[atomic |-> "Float", shape |-> sh, data |-> Iota(sh)] : sh \in OperandShapes}
RightOperands ==
    {[atomic |-> "Float", shape |-> sh, data |-> [k \in 1..Product(sh) |-> 2 * k - 1]] :
        sh \in OperandShapes}

\* the arrays handed to get_num_columns: of rank 0 to 4, with an empty axis too
ColumnCountArrays ==
    {[atomic |-> "Float", shape |-> sh, data |-> Iota(sh)] :
        sh \in OperandShapes \cup {<<MaxRows, 0>>, <<0, MaxCols>>, <<1, MaxCols, 1>>,
                                   <<1, 1, 1, 1>>}}

\* sum of a sequence of weights
RECURSIVE SumWeights(_)
SumWeights(weights) ==
    IF weights = <<>> THEN 0 ELSE Head(weights) + SumWeights(Tail(weights))

\* the loop of sample_from_set from position return_index on (counted from 1):
\* the cumulative weight grows until it reaches the sample, and the loop is left
\* there; [return_index, iterations] when it is left.  Without the feature
\* use-mpfr an index beyond the weights panics; with it the for loop ends and
\* return_index stays 0.
RECURSIVE SampleLoop(_, _, _, _, _)
SampleLoop(weights, sample, cumulative, return_index, mpfr) ==
    IF return_index > Len(weights)
    THEN (IF mpfr THEN [panic |-> FALSE, return_index |-> 1, iterations |-> Len(weights)]
          ELSE [panic |-> TRUE, return_index |-> return_index, iterations |-> Len(weights)])
    ELSE IF cumulative + weights[return_index] >= sample
    THEN [panic |-> FALSE, return_index |-> return_index, iterations |-> return_index]
    ELSE SampleLoop(weights, sample, cumulative + weights[return_index], return_index + 1,
                    mpfr)

\* sample_from_set, both builds (feature use-mpfr or not): sample is the uniform
\* draw, scaled to [0, sum of the weights); the result carries the number of
\* iterations of the loop
sample_from_set(candidate_set, weights, enforce_constant_time, mpfr, sample) ==
    LET loop == SampleLoop(weights, sample, 0, 1, mpfr)
    IN  IF loop.panic \/ loop.return_index > Len(candidate_set)
        THEN [ok |-> FALSE, val |-> <<>>, err |-> "panic", iterations |-> loop.iterations]
        ELSE [ok |-> TRUE, val |-> candidate_set[loop.return_index], err |-> "",
              iterations |-> loop.iterations]

\* candidate sets with one weight per candidate: the weights are not negative
\* and their sum is positive
CandidateSets == {[i \in 1..n |-> 10 * i] : n \in 1..MaxCandidates}
WeightsOf(candidate_set) ==
    {weights \in [1..Len(candidate_set) -> 0..2] : SumWeights(weights) > 0}

\* slice::sort_by with the comparator b.0.partial_cmp(&a.0): the (key, index)
\* pairs by descending key, pairs of equal keys keeping their order (the sort
\* is stable)
RECURSIVE SortByKeyDescending(_)
SortByKeyDescending(key_vec) ==
    IF key_vec = <<>> THEN <<>>
    ELSE LET sorted == SortByKeyDescending(SubSeq(key_vec, 1, Len(key_vec) - 1))
             last == key_vec[Len(key_vec)]
             ahead == Cardinality({i \in 1..Len(sorted) : sorted[i][1] >= last[1]})
         IN  SubSeq(sorted, 1, ahead) \o <<last>> \o SubSeq(sorted, ahead + 1, Len(sorted))

\* create_subset without the check of k: take(k) yields what there is
create_subset_Unchecked(set, weights, k, enforce_constant_time, keys) ==
    LET key_vec == SortByKeyDescending([i \in 1..Len(set) |-> <<keys[i], i>>])
    IN  Ok([j \in 1..Min2(k, Len(key_vec)) |-> set[key_vec[j][2]]])

\* create_subset: keys[i] is the random key u^(1 / probability) of element i
create_subset(set, weights, k, enforce_constant_time, keys) ==
    IF k > Len(set) THEN Err("k must be less than the set length")
    ELSE LET key_vec == SortByKeyDescending([i \in 1..Len(set) |-> <<keys[i], i>>])
         IN  Ok([j \in 1..Min2(k, Len(key_vec)) |-> set[key_vec[j][2]]])

\* the m for which 2^m is a double: from the smallest subnormal to the largest
\* binade
Lambdas == (1 - Bias - MantBits)..Bias

\* the calls of the utilities
UtilCalls ==
    [op : {"get_closest_multiple_of_lambda"}, pc : {"call"}, x : Floats, m : Lambdas]
    \cup
    [op : {"f64_to_binary"}, pc : {"call"}, num : Floats]
    \cup
    [op : {"binary_to_f64"}, pc : {"call"}, binary_string : BinaryStrings]
    \cup
    [op : {"broadcast_map"}, pc : {"call"}, left : LeftOperands, right : RightOperands,
     operator : Operators]
    \cup
    [op : {"get_num_columns"}, pc : {"call"}, data : ColumnCountArrays]
    \cup
    UNION {[op : {"sample_from_set"}, pc : {"call"}, candidate_set : {c},
            weights : WeightsOf(c), enforce_constant_time : BOOLEAN, mpfr : BOOLEAN] :
              c \in CandidateSets}
    \cup
    UNION {[op : {"create_subset"}, pc : {"call"}, set : {c}, weights : WeightsOf(c),
            k : 0..(Len(c) + 1), enforce_constant_time : BOOLEAN] :
              c \in CandidateSets}

\* get_closest_multiple_of_lambda(x, m)
ClosestMultiple ==
    /\ util.op = "get_closest_multiple_of_lambda"
    /\ util.pc = "call"
    /\ util' = [op |-> util.op, pc |-> "done", x |-> util.x, m |-> util.m, applied |-> 1,
                input |-> util.x, result |-> get_closest_multiple_of_lambda(util.x, util.m)]
    /\ UNCHANGED <<ffi, prop, eval, acct, comp>>

\* get_closest_multiple_of_lambda applied to what it returned, with the same m
ClosestMultipleAgain ==
    /\ util.op = "get_closest_multiple_of_lambda"
    /\ util.pc = "done"
    /\ util.applied = 1
    /\ util.result.ok
    /\ util' = [op |-> util.op, pc |-> "done", x |-> util.x, m |-> util.m, applied |-> 2,
                input |-> util.result.val,
                result |-> get_closest_multiple_of_lambda(util.result.val, util.m)]
    /\ UNCHANGED <<ffi, prop, eval, acct, comp>>

\* f64_to_binary(num)
F64ToBinary ==
    /\ util.op = "f64_to_binary"
    /\ util.pc = "call"
    /\ util' = [op |-> util.op, pc |-> "done", num |-> util.num,
                result |-> f64_to_binary(util.num)]
    /\ UNCHANGED <<ffi, prop, eval, acct, comp>>

\* binary_to_f64(binary_string)
BinaryToF64 ==
    /\ util.op = "binary_to_f64"
    /\ util.pc = "call"
    /\ util' = [op |-> util.op, pc |-> "done", binary_string |-> util.binary_string,
                origin |-> None, result |-> binary_to_f64(util.binary_string)]
    /\ UNCHANGED <<ffi, prop, eval, acct, comp>>

\* binary_to_f64 of the string f64_to_binary returned
BinaryToF64OfBinary ==
    /\ util.op = "f64_to_binary"
    /\ util.pc = "done"
    /\ util' = [op |-> "binary_to_f64", pc |-> "done", binary_string |-> util.result,
                origin |-> Some(util.num), result |-> binary_to_f64(util.result)]
    /\ UNCHANGED <<ffi, prop, eval, acct, comp>>

\* broadcast_map(left, right, operator)
BroadcastMap ==
    /\ util.op = "broadcast_map"
    /\ util.pc = "call"
    /\ util' = [op |-> util.op, pc |-> "done", left |-> util.left, right |-> util.right,
                operator |-> util.operator,
                result |-> broadcast_map(util.left, util.right, util.operator)]
    /\ UNCHANGED <<ffi, prop, eval, acct, comp>>

\* get_num_columns(data)
GetNumColumns ==
    /\ util.op = "get_num_columns"
    /\ util.pc = "call"
    /\ util' = [op |-> util.op, pc |-> "done", data |-> util.data,
                result |-> get_num_columns(util.data.shape)]
    /\ UNCHANGED <<ffi, prop, eval, acct, comp>>

\* sample_from_set(candidate_set, weights, enforce_constant_time): the uniform
\* sample is drawn within the call
SampleFromSet ==
    /\ util.op = "sample_from_set"
    /\ util.pc = "call"
    /\ \E sample \in 0..(SumWeights(util.weights) - 1) :
          util' = [op |-> util.op, pc |-> "done", candidate_set |-> util.candidate_set,
                   weights |-> util.weights,
                   enforce_constant_time |-> util.enforce_constant_time,
                   mpfr |-> util.mpfr, sample |-> sample,
                   result |-> sample_from_set(util.candidate_set, util.weights,
                                              util.enforce_constant_time, util.mpfr, sample)]
    /\ UNCHANGED <<ffi, prop, eval, acct, comp>>

\* create_subset(set, weights, k, enforce_constant_time): the keys are drawn
\* within the call
CreateSubset ==
    /\ util.op = "create_subset"
    /\ util.pc = "call"
    /\ \E keys \in [1..Len(util.set) -> 0..MaxKey] :
          util' = [op |-> util.op, pc |-> "done", set |-> util.set,
                   weights |-> util.weights, k |-> util.k,
                   enforce_constant_time |-> util.enforce_constant_time, keys |-> keys,
                   result |-> create_subset(util.set, util.weights, util.k,
                                            util.enforce_constant_time, keys)]
    /\ UNCHANGED <<ffi, prop, eval, acct, comp>>

InitUtil ==
    /\ ffi = Idle
    /\ prop = Idle
    /\ eval = Idle
    /\ acct = Idle
    /\ comp = Idle
    /\ util \in UtilCalls

NextUtil ==
    \/ ClosestMultiple
    \/ ClosestMultipleAgain
    \/ F64ToBinary
    \/ BinaryToF64
    \/ BinaryToF64OfBinary
    \/ BroadcastMap
    \/ GetNumColumns
    \/ SampleFromSet
    \/ CreateSubset

SpecUtil == InitUtil /\ [][NextUtil]_vars

(***************************************************************************)
(* Imputation (runtime-rust/src/components/impute.rs).  A cell of the data *)
(* is [nan, v]: f64::NAN, or the number v; no cell of an Int array is NaN. *)
(***************************************************************************)
F(v) == [nan |-> FALSE, v |-> v]
FloatNaN == [nan |-> TRUE, v |-> 0]
is_nan(cell) == cell.nan

\* noise::sample_uniform(min, max, enforce_constant_time): a value of
\* [min, max), min itself when the interval is one point
sample_uniform(min, max, enforce_constant_time, draw) ==
    IF min > max THEN Err("min cannot be less than max")
    ELSE IF min = max THEN Ok(min)
    ELSE Ok(min + (draw % (max - min)))

\* noise::sample_gaussian_truncated(min, max, shift, scale, enforce_constant_time):
\* a value of [min, max]
sample_gaussian_truncated(min, max, shift, scale, enforce_constant_time, draw) ==
    IF min > max THEN Err("lower may not be greater than upper")
    ELSE Ok(Max2(min, Min2(max, shift + scale * draw)))

\* validator utilities::standardize_numeric_argument(value, length): one value
\* per column, from a scalar, a vector of one value or a vector of length values
standardize_numeric_argument(value, length) ==
    IF Len(value.shape) = 0 THEN Ok([j \in 1..length |-> value.data[1]])
    ELSE IF Len(value.shape) > 1
    THEN Err("numeric arguments must be scalars or vectors")
    ELSE IF value.shape[1] = length THEN Ok(value.data)
    ELSE IF value.shape[1] = 1 THEN Ok([j \in 1..length |-> value.data[1]])
    ELSE Err("length of column-wise argument must be 1, or total columns")

\* the non-negative draw of the k-th call of sample_uniform under a seed
UniformDraw(seed, k) == Draw(seed, k) + MaxDraw

\* what an imputation returns, with the number of random values it drew
Imputed(result, draws) == [result |-> result, draws |-> draws]

\* the cells an imputation visits: the columns in order, each with the
\* parameters the zips pair it with, and the cells of a column in order
ImputeVisits(shape, params) ==
    LET columns == Gencolumns(shape)
    IN  Flatten([j \in 1..ZipLen(columns, params) |->
                    [i \in 1..Len(columns[j]) |->
                        [cell |-> columns[j][i], params |-> params[j]]]])

\* impute_float_uniform (lines 132-146) over the columns, by try_for_each: the
\* cells that are NaN are assigned a sample each, up to the first sample that fails
RECURSIVE UniformLoop(_, _, _, _)
UniformLoop(visits, acc, enforce_constant_time, seed) ==
    IF Len(visits) = 0 \/ acc.err # "" THEN acc
    ELSE LET visit == Head(visits)
             n == sample_uniform(visit.params.lower, visit.params.upper,
                                 enforce_constant_time, UniformDraw(seed, acc.draws))
             next == IF ~is_nan(acc.data[visit.cell]) THEN acc
                     ELSE [data |-> IF n.ok THEN [acc.data EXCEPT ![visit.cell] = F(n.val)]
                                    ELSE acc.data,
                           draws |-> acc.draws + 1,
                           err |-> IF n.ok THEN "" ELSE n.err]
         IN  UniformLoop(Tail(visits), next, enforce_constant_time, seed)

\* impute_float_uniform writing the sample over every cell it visits
RECURSIVE UniformLoop_AllCells(_, _, _, _)
UniformLoop_AllCells(visits, acc, enforce_constant_time, seed) ==
    IF Len(visits) = 0 \/ acc.err # "" THEN acc
    ELSE LET visit == Head(visits)
             n == sample_uniform(visit.params.lower, visit.params.upper,
                                 enforce_constant_time, UniformDraw(seed, acc.draws))
             next == [data |-> IF n.ok THEN [acc.data EXCEPT ![visit.cell] = F(n.val)]
                               ELSE acc.data,
                      draws |-> acc.draws + 1,
                      err |-> IF n.ok THEN "" ELSE n.err]
         IN  UniformLoop_AllCells(Tail(visits), next, enforce_constant_time, seed)

\* impute_float_uniform_arrayd imputing every cell, null or not
impute_float_uniform_arrayd_AllCells(data, lower, upper, enforce_constant_time, seed) ==
    LET num_columns == get_num_columns(data.shape)
    IN  IF ~num_columns.ok THEN Imputed(Err(num_columns.err), 0)
        ELSE LET min == standardize_numeric_argument(lower, num_columns.val)
                 max == standardize_numeric_argument(upper, num_columns.val)
             IN  IF ~min.ok THEN Imputed(Err(min.err), 0)
                 ELSE IF ~max.ok THEN Imputed(Err(max.err), 0)
                 ELSE LET params == [j \in 1..ZipLen(min.val, max.val) |->
                                        [lower |-> min.val[j], upper |-> max.val[j]]]
                          loop == UniformLoop_AllCells(ImputeVisits(data.shape, params),
                                                       [data |-> data.data, draws |-> 0, err |-> ""],
                                                       enforce_constant_time, seed)
                      IN  IF loop.err # "" THEN Imputed(Err(loop.err), loop.draws)
                          ELSE Imputed(Ok([data EXCEPT !.data = loop.data]), loop.draws)

\* impute_float_uniform_arrayd pairing every column with the bounds of the
\* first column
impute_float_uniform_arrayd_FirstBounds(data, lower, upper, enforce_constant_time, seed) ==
    LET num_columns == get_num_columns(data.shape)
    IN  IF ~num_columns.ok THEN Imputed(Err(num_columns.err), 0)
        ELSE LET min == standardize_numeric_argument(lower, num_columns.val)
                 max == standardize_numeric_argument(upper, num_columns.val)
             IN  IF ~min.ok THEN Imputed(Err(min.err), 0)
                 ELSE IF ~max.ok THEN Imputed(Err(max.err), 0)
                 ELSE LET params == [j \in 1..ZipLen(min.val, max.val) |->
                                        [lower |-> min.val[1], upper |-> max.val[1]]]
                          loop == UniformLoop(ImputeVisits(data.shape, params),
                                              [data |-> data.data, draws |-> 0, err |-> ""],
                                              enforce_constant_time, seed)
                      IN  IF loop.err # "" THEN Imputed(Err(loop.err), loop.draws)
                          ELSE Imputed(Ok([data EXCEPT !.data = loop.data]), loop.draws)

\* impute_float_uniform_arrayd (lines 112-130)
impute_float_uniform_arrayd(data, lower, upper, enforce_constant_time, seed) ==
    LET num_columns == get_num_columns(data.shape)
    IN  IF ~num_columns.ok THEN Imputed(Err(num_columns.err), 0)
        ELSE LET min == standardize_numeric_argument(lower, num_columns.val)
                 max == standardize_numeric_argument(upper, num_columns.val)
             IN  IF ~min.ok THEN Imputed(Err(min.err), 0)
                 ELSE IF ~max.ok THEN Imputed(Err(max.err), 0)
                 ELSE LET params == [j \in 1..ZipLen(min.val, max.val) |->
                                        [lower |-> min.val[j], upper |-> max.val[j]]]
                          loop == UniformLoop(ImputeVisits(data.shape, params),
                                              [data |-> data.data, draws |-> 0, err |-> ""],
                                              enforce_constant_time, seed)
                      IN  IF loop.err # "" THEN Imputed(Err(loop.err), loop.draws)
                          ELSE Imputed(Ok([data EXCEPT !.data = loop.data]), loop.draws)

\* impute_float_gaussian (lines 198-213) over the columns
RECURSIVE GaussianLoop(_, _, _, _)
GaussianLoop(visits, acc, enforce_constant_time, seed) ==
    IF Len(visits) = 0 \/ acc.err # "" THEN acc
    ELSE LET visit == Head(visits)
             n == sample_gaussian_truncated(visit.params.lower, visit.params.upper,
                                            visit.params.shift, visit.params.scale,
                                            enforce_constant_time, Draw(seed, acc.draws))
             next == IF ~is_nan(acc.data[visit.cell]) THEN acc
                     ELSE [data |-> IF n.ok THEN [acc.data EXCEPT ![visit.cell] = F(n.val)]
                                    ELSE acc.data,
                           draws |-> acc.draws + 1,
                           err |-> IF n.ok THEN "" ELSE n.err]
         IN  GaussianLoop(Tail(visits), next, enforce_constant_time, seed)

\* impute_float_gaussian_arrayd (lines 174-196)
impute_float_gaussian_arrayd(data, lower, upper, shift, scale, enforce_constant_time, seed) ==
    LET num_columns == get_num_columns(data.shape)
    IN  IF ~num_columns.ok THEN Imputed(Err(num_columns.err), 0)
        ELSE LET min == standardize_numeric_argument(lower, num_columns.val)
                 max == standardize_numeric_argument(upper, num_columns.val)
                 mu == standardize_numeric_argument(shift, num_columns.val)
                 sigma == standardize_numeric_argument(scale, num_columns.val)
             IN  IF ~min.ok THEN Imputed(Err(min.err), 0)
                 ELSE IF ~max.ok THEN Imputed(Err(max.err), 0)
                 ELSE IF ~mu.ok THEN Imputed(Err(mu.err), 0)
                 ELSE IF ~sigma.ok THEN Imputed(Err(sigma.err), 0)
                 ELSE LET params == [j \in 1..Min2(ZipLen(min.val, max.val),
                                                   ZipLen(mu.val, sigma.val)) |->
                                        [lower |-> min.val[j], upper |-> max.val[j],
                                         shift |-> mu.val[j], scale |-> sigma.val[j]]]
                          loop == GaussianLoop(ImputeVisits(data.shape, params),
                                               [data |-> data.data, draws |-> 0, err |-> ""],
                                               enforce_constant_time, seed)
                      IN  IF loop.err # "" THEN Imputed(Err(loop.err), loop.draws)
                          ELSE Imputed(Ok([data EXCEPT !.data = loop.data]), loop.draws)

\* ReleaseNode::new: a value that carries no privacy usage
ReleaseNodeNew(value) == [value |-> value, privacy_usages |-> None, public |-> FALSE]

\* take_argument: the argument of a name, or an error when it is absent
take_argument(arguments, name) ==
    IF IsSome(arguments[name]) THEN Ok(Unwrap(arguments[name]))
    ELSE Err("missing argument")

\* Array::first_string: the first cell of an array of strings
first_string(array) ==
    IF array.atomic # "Str" THEN Err("value must be a string")
    ELSE IF Len(array.data) = 0 THEN Err("string array is empty")
    ELSE Ok(array.data[1])

\* Array::float
float(array) == IF array.atomic = "Float" THEN Ok(array) ELSE Err("atomic type: expected float")

\* str::to_lowercase on the distribution names of the model
to_lowercase(string) ==
    IF string \in {"Uniform", "UNIFORM", "uniform"} THEN "uniform"
    ELSE IF string \in {"Gaussian", "gaussian"} THEN "gaussian"
    ELSE IF string = "Poisson" THEN "poisson"
    ELSE string

\* the name of the distribution of Impute::evaluate (lines 50-53)
Distribution(arguments) ==
    LET distribution == take_argument(arguments, "distribution")
    IN  IF ~distribution.ok THEN Ok("Uniform")
        ELSE first_string(distribution.val)

\* the "uniform" arm of Impute::evaluate (lines 59-71)
ImputeUniformArm(arguments, enforce_constant_time, seed) ==
    LET data == take_argument(arguments, "data")
        lower == take_argument(arguments, "lower")
        upper == take_argument(arguments, "upper")
    IN  IF ~data.ok THEN Imputed(Err(data.err), 0)
        ELSE IF ~lower.ok THEN Imputed(Err(lower.err), 0)
        ELSE IF ~upper.ok THEN Imputed(Err(upper.err), 0)
        ELSE IF <<data.val.atomic, lower.val.atomic, upper.val.atomic>>
                   = <<"Float", "Float", "Float">>
        THEN impute_float_uniform_arrayd(data.val, lower.val, upper.val,
                                         enforce_constant_time, seed)
        ELSE IF <<data.val.atomic, lower.val.atomic, upper.val.atomic>>
                   = <<"Int", "Int", "Int">>
        THEN Imputed(Ok(data.val), 0)
        ELSE Imputed(Err("data, lower, and upper must all be the same type"), 0)

\* the "gaussian" arm of Impute::evaluate (lines 73-81)
RECURSIVE TakeFloats(_, _)
TakeFloats(arguments, names) ==
    IF Len(names) = 0 THEN ""
    ELSE LET argument == take_argument(arguments, Head(names))
         IN  IF ~argument.ok THEN argument.err
             ELSE IF ~float(argument.val).ok THEN float(argument.val).err
             ELSE TakeFloats(arguments, Tail(names))

ImputeGaussianArm(arguments, enforce_constant_time, seed) ==
    LET err == TakeFloats(arguments, <<"data", "lower", "upper", "scale", "shift">>)
    IN  IF err # "" THEN Imputed(Err(err), 0)
        ELSE impute_float_gaussian_arrayd(
                 Unwrap(arguments.data), Unwrap(arguments.lower), Unwrap(arguments.upper),
                 Unwrap(arguments.shift), Unwrap(arguments.scale),
                 enforce_constant_time, seed)

\* Impute::evaluate on continuous data (lines 47-84): Result<ReleaseNode>, with
\* the name of the imputation run and the number of random values drawn
ImputeContinuous(privacy_definition, arguments, seed) ==
    LET enforce_constant_time == EnforceConstantTime(privacy_definition)
        distribution == Distribution(arguments)
        arm == IF distribution.ok THEN to_lowercase(distribution.val) ELSE "none"
        imputed == IF arm = "uniform"
                   THEN ImputeUniformArm(arguments, enforce_constant_time, seed)
                   ELSE ImputeGaussianArm(arguments, enforce_constant_time, seed)
    IN  IF ~distribution.ok THEN [result |-> Err(distribution.err), draws |-> 0, arm |-> "none"]
        ELSE IF arm \notin {"uniform", "gaussian"}
        THEN [result |-> Err("Distribution not supported"), draws |-> 0, arm |-> "none"]
        ELSE [result |-> IF imputed.result.ok THEN Ok(ReleaseNodeNew(imputed.result.val))
                         ELSE imputed.result,
              draws |-> imputed.draws, arm |-> arm]

(***************************************************************************)
(* Row-wise minimum (runtime-rust/src/components.rs lines 228-243).        *)
(***************************************************************************)
\* component_row_wise_min taking the minimum of integers too
component_row_wise_min_MinOfIntegers(arguments) ==
    IF arguments.left.atomic = "F64" /\ arguments.right.atomic = "F64"
    THEN broadcast_map(arguments.left, arguments.right, "min")
    ELSE IF arguments.left.atomic = "I64" /\ arguments.right.atomic = "I64"
    THEN broadcast_map(arguments.left, arguments.right, "min")
    ELSE Err("Min: Either the argument types are mismatched or non-numeric.")

component_row_wise_min(arguments) ==
    IF arguments.left.atomic = "F64" /\ arguments.right.atomic = "F64"
    THEN broadcast_map(arguments.left, arguments.right, "min")
    ELSE IF arguments.left.atomic = "I64" /\ arguments.right.atomic = "I64"
    THEN broadcast_map(arguments.left, arguments.right, "max")
    ELSE Err("Min: Either the argument types are mismatched or non-numeric.")

(***************************************************************************)
(* The calls of the components of the model.                               *)
(***************************************************************************)
\* which cells of the data are null: none, all, every other one
NullMasks == {"none", "all", "odd", "even"}
IsNull(mask, k) ==
    \/ mask = "all"
    \/ mask = "odd" /\ k % 2 = 1
    \/ mask = "even" /\ k % 2 = 0

\* the k-th cell of the data is NaN or holds 100 + k, a value of no imputation range
ImputeData ==
    {[atomic |-> "Float", shape |-> sh,
      data |-> [k \in 1..Product(sh) |-> IF IsNull(mask, k) THEN FloatNaN ELSE F(100 + k)]] :
        sh \in Shapes \cup {<<1, 1, 1>>}, mask \in NullMasks}

\* a column-wise argument whose j-th value is 10 * j + offset: a scalar, a
\* vector of 1 to MaxCols + 1 values, a matrix
ColumnArguments(atomic, offset) ==
    {[atomic |-> atomic, shape |-> sh, data |-> [j \in 1..Product(sh) |-> 10 * j + offset]] :
        sh \in {<<>>, <<1, 1>>} \cup {<<n>> : n \in 1..(MaxCols + 1)}}

\* the width of the imputation range of a column: empty, one point, two values
Widths == {-1, 0, 2}

ImputeArguments ==
    [distribution : {None} \cup {Some([atomic |-> "Str", shape |-> <<>>, data |-> <<name>>]) :
                                    name \in {"Uniform", "uniform", "Gaussian", "Poisson"}}
                           \cup {Some([atomic |-> "Bool", shape |-> <<>>, data |-> <<"true">>])},
     data : {Some([atomic |-> "Float", shape |-> <<MaxRows, MaxCols>>,
                   data |-> [k \in 1..(MaxRows * MaxCols) |->
                                IF IsNull("odd", k) THEN FloatNaN ELSE F(100 + k)]]),
             Some([atomic |-> "Int", shape |-> <<MaxRows, MaxCols>>,
                   data |-> [k \in 1..(MaxRows * MaxCols) |-> F(k - 1)]])},
     lower : {Some([atomic |-> a, shape |-> <<>>, data |-> <<10>>]) : a \in {"Float", "Int"}},
     upper : {Some([atomic |-> a, shape |-> <<>>, data |-> <<12>>]) : a \in {"Float", "Int"}},
     shift : {None, Some([atomic |-> "Float", shape |-> <<>>, data |-> <<11>>])},
     scale : {None, Some([atomic |-> "Float", shape |-> <<>>, data |-> <<1>>])}]

\* the operands of the row-wise minimum: the cells of a left operand ascend,
\* those of a right operand descend
RowOperands(descending) ==
    {[atomic |-> a, shape |-> sh,
      data |-> [k \in 1..Product(sh) |-> IF descending THEN Product(sh) - k ELSE k - 1]] :
        a \in {"F64", "I64", "Str"}, sh \in Shapes}

ComponentCalls ==
    [op : {"impute_float_uniform_arrayd"}, pc : {"call"}, data : ImputeData,
     lower : ColumnArguments("Float", 0),
     upper : UNION {ColumnArguments("Float", w) : w \in Widths},
     enforce_constant_time : BOOLEAN]
    \cup
    [op : {"impute_float_gaussian_arrayd"}, pc : {"call"}, data : ImputeData,
     lower : ColumnArguments("Float", 0), upper : ColumnArguments("Float", 2),
     shift : {[atomic |-> "Float", shape |-> sh, data |-> [j \in 1..Product(sh) |-> 10 * j + 1]] :
                 sh \in {<<>>, <<MaxCols + 1>>}},
     scale : {[atomic |-> "Float", shape |-> <<>>, data |-> <<1>>]},
     enforce_constant_time : BOOLEAN]
    \cup
    [op : {"Impute"}, pc : {"call"}, privacy_definition : EvalDefinitions,
     arguments : ImputeArguments]
    \cup
    [op : {"component_row_wise_min"}, pc : {"call"},
     arguments : [left : RowOperands(FALSE), right : RowOperands(TRUE)]]

ImputeFloatUniformArrayd ==
    /\ comp.op = "impute_float_uniform_arrayd"
    /\ comp.pc = "call"
    /\ \E seed \in Seeds :
          LET imputed == impute_float_uniform_arrayd(comp.data, comp.lower, comp.upper,
                                                     comp.enforce_constant_time, seed)
          IN  comp' = [op |-> comp.op, pc |-> "done", data |-> comp.data,
                       lower |-> comp.lower, upper |-> comp.upper,
                       enforce_constant_time |-> comp.enforce_constant_time, seed |-> seed,
                       result |-> imputed.result, draws |-> imputed.draws]
    /\ UNCHANGED <<ffi, prop, eval, acct, util>>

ImputeFloatGaussianArrayd ==
    /\ comp.op = "impute_float_gaussian_arrayd"
    /\ comp.pc = "call"
    /\ \E seed \in Seeds :
          LET imputed == impute_float_gaussian_arrayd(comp.data, comp.lower, comp.upper,
                                                      comp.shift, comp.scale,
                                                      comp.enforce_constant_time, seed)
          IN  comp' = [op |-> comp.op, pc |-> "done", data |-> comp.data,
                       lower |-> comp.lower, upper |-> comp.upper,
                       shift |-> comp.shift, scale |-> comp.scale,
                       enforce_constant_time |-> comp.enforce_constant_time, seed |-> seed,
                       result |-> imputed.result, draws |-> imputed.draws]
    /\ UNCHANGED <<ffi, prop, eval, acct, util>>

\* Impute::evaluate without a categories argument
EvaluateImpute ==
    /\ comp.op = "Impute"
    /\ comp.pc = "call"
    /\ \E seed \in Seeds :
          LET evaluated == ImputeContinuous(comp.privacy_definition, comp.arguments, seed)
          IN  comp' = [op |-> comp.op, pc |-> "done",
                       privacy_definition |-> comp.privacy_definition,
                       arguments |-> comp.arguments, seed |-> seed,
                       result |-> evaluated.result, draws |-> evaluated.draws,
                       arm |-> evaluated.arm]
    /\ UNCHANGED <<ffi, prop, eval, acct, util>>

ComponentRowWiseMin ==
    /\ comp.op = "component_row_wise_min"
    /\ comp.pc = "call"
    /\ comp' = [op |-> comp.op, pc |-> "done", arguments |-> comp.arguments,
                result |-> component_row_wise_min(comp.arguments)]
    /\ UNCHANGED <<ffi, prop, eval, acct, util>>

InitComponents ==
    /\ ffi = Idle
    /\ prop = Idle
    /\ eval = Idle
    /\ acct = Idle
    /\ util = Idle
    /\ comp \in ComponentCalls

NextComponents ==
    \/ ImputeFloatUniformArrayd
    \/ ImputeFloatGaussianArrayd
    \/ EvaluateImpute
    \/ ComponentRowWiseMin

SpecComponents == InitComponents /\ [][NextComponents]_vars

(***************************************************************************)
(* The whole library: any one call.                                        *)
(***************************************************************************)
Init ==
    InitFfi \/ InitValidator \/ InitEvaluate \/ InitAccountant \/ InitUtil \/ InitComponents

Next ==
    NextFfi \/ NextValidator \/ NextEvaluate \/ NextAccountant \/ NextUtil \/ NextComponents

Spec == Init /\ [][Next]_vars

(***************************************************************************)
(* Properties.                                                             *)
(***************************************************************************)
FfiReturned ==
    ffi.op = "simple_geometric_mechanism" /\ ffi.pc = "done" /\ ffi.outcome = "return"

EvalReturned(mechanisms) ==
    eval.op \in mechanisms /\ eval.pc = "done"

PropReturned == prop.op = "propagate_property" /\ prop.pc = "done"

AcctReturned == acct.op = "get_privacy_usage" /\ acct.pc = "done"

\* the "data" property of a propagate_property call, when it is an array
PropHasArray ==
    IsSome(prop.properties.data) /\ Unwrap(prop.properties.data).variant = "Array"
PropData == Unwrap(prop.properties.data).array

\* C1: the output of the simple geometric mechanism lies in [lo, hi], for every
\* value, all bounds lo <= hi and every noise the kernel draws: through the C
\* ABI, and in every noised cell of SimpleGeometricMechanism.evaluate.
C1_GeometricOutputWithinBounds ==
    /\ (FfiReturned /\ ffi.min <= ffi.max)
          => (ffi.min <= ffi.result /\ ffi.result <= ffi.max)
    /\ (EvalReturned({"SimpleGeometricMechanism"}) /\ eval.result.ok)
          => LET shape == eval.arguments.data.shape
                 lower == broadcast_ndarray(eval.arguments.lower, shape).val.data
                 upper == broadcast_ndarray(eval.arguments.upper, shape).val.data
                 value == eval.result.val.value.data
             IN  \A k \in 1..Len(value) :
                    eval.calls[k] > 0 => (lower[k] <= value[k] /\ value[k] <= upper[k])

\* C2: propagate_property returns an error whenever the data property is
\* releasable or has no aggregator.
C2_RejectsReleasableOrUnaggregated ==
    (PropReturned /\ PropHasArray
        /\ (PropData.releasable \/ ~IsSome(PropData.aggregator)))
    => ~prop.result.ok

\* C3: whenever propagate_property succeeds, the property it returns is
\* releasable and has no aggregator.
C3_OutputReleasableWithoutAggregator ==
    (PropReturned /\ prop.result.ok)
    => /\ prop.result.val.properties.releasable = TRUE
       /\ prop.result.val.properties.aggregator = None

\* a successful propagation of a property that was not releasable and had an
\* aggregator
C3_Witness ==
    /\ PropReturned /\ prop.result.ok
    /\ ~PropData.releasable /\ IsSome(PropData.aggregator)

\* C4: propagate_property returns the floating-point error whenever the privacy
\* definition has protect_floating_point, whatever the data property, the
\* aggregator, the group size and the declared usage are.
C4_RejectsFloatingPointProtection ==
    (PropReturned /\ IsSome(prop.privacy_definition)
        /\ Unwrap(prop.privacy_definition).protect_floating_point)
    => (~prop.result.ok /\ prop.result.err = FloatingPointError)

\* a call rejected for protect_floating_point whose data property is absent:
\* the flag is checked before the data is looked up
C4_Witness ==
    /\ PropReturned /\ IsSome(prop.privacy_definition)
    /\ Unwrap(prop.privacy_definition).protect_floating_point
    /\ Unwrap(prop.privacy_definition).group_size > 0
    /\ ~IsSome(prop.properties.data)
    /\ ~prop.result.ok

\* C5: whenever the evaluate of Laplace, Gaussian or SimpleGeometric returns Ok,
\* the kernel has been invoked exactly once for every cell of the data, whatever
\* the shape of the sensitivity: no cell is released without noise.
C5_EveryCellNoised ==
    (EvalReturned({"LaplaceMechanism", "GaussianMechanism", "SimpleGeometricMechanism"})
        /\ eval.result.ok)
    => \A k \in 1..Len(eval.calls) : eval.calls[k] = 1

\* the columns of an array argument
Columns(array) == get_num_columns(array.shape).val

\* C6: LaplaceMechanism.evaluate never returns Ok when the number of columns of
\* the sensitivity is neither 1 nor the number of columns of the data.
C6_LaplaceRejectsSensitivityShape ==
    (EvalReturned({"LaplaceMechanism"})
        /\ Len(eval.arguments.data.shape) <= 2
        /\ Columns(eval.arguments.sensitivity) # 1
        /\ Columns(eval.arguments.sensitivity) # Columns(eval.arguments.data))
    => ~eval.result.ok

\* a Snapping call whose arguments other than the bounds are acceptable: numeric
\* data of rank <= 2, one non-negative float sensitivity per cell, one declared
\* usage or one per cell
SnappingCallAcceptable ==
    /\ EvalReturned({"SnappingMechanism"})
    /\ IsNumeric(eval.arguments.data)
    /\ Len(eval.arguments.data.shape) <= 2
    /\ eval.arguments.sensitivity.atomic = "Float"
    /\ Len(eval.arguments.sensitivity.data) = Len(eval.arguments.data.data)
    /\ \A k \in 1..Len(eval.arguments.sensitivity.data) :
            eval.arguments.sensitivity.data[k] >= 0
    /\ Len(eval.self.privacy_usage) \in {1, Len(eval.arguments.sensitivity.data)}

BoundLengthAccepted(bound) ==
    Len(bound.data) \in {1, Columns(eval.arguments.data)}

\* the bound of column j: the only value of a scalar or length-1 bound, else entry j
BoundOf(bound, j) == IF Len(bound.data) = 1 THEN bound.data[1] ELSE bound.data[j]

\* C7: SnappingMechanism.evaluate accepts a scalar or length-1 bound and applies
\* it to every column, accepts a bound with one entry per column, and rejects
\* every other length.
C7_SnappingBroadcastsBounds ==
    SnappingCallAcceptable
    => IF BoundLengthAccepted(eval.arguments.lower)
          /\ BoundLengthAccepted(eval.arguments.upper)
       THEN /\ eval.result.ok
            /\ LET cols == Gencolumns(eval.arguments.data.shape)
               IN  \A j \in 1..Len(cols) : \A i \in 1..Len(cols[j]) :
                      LET v == eval.result.val.value.data[cols[j][i]]
                      IN  /\ BoundOf(eval.arguments.lower, j) <= v
                          /\ v <= BoundOf(eval.arguments.upper, j)
       ELSE ~eval.result.ok

\* C8: SnappingMechanism.evaluate releases nothing when the privacy definition
\* asks for constant time (protect_elapsed_time) without protect_floating_point.
C8_SnappingRefusesConstantTime ==
    (EvalReturned({"SnappingMechanism"})
        /\ IsSome(eval.privacy_definition)
        /\ Unwrap(eval.privacy_definition).protect_elapsed_time
        /\ ~Unwrap(eval.privacy_definition).protect_floating_point)
    => ~eval.result.ok

\* the declared usage spread over n columns
SpreadOver(declared, n) ==
    IF Len(declared) = 1 THEN [i \in 1..n |-> declared[1]] ELSE declared

\* C9: every evaluate that returns Ok yields a public ReleaseNode whose
\* privacy_usages hold exactly one usage per data column, the declared usage
\* spread over the columns, for every data shape of rank <= 2.  (The release of
\* the Exponential mechanism has no data argument: only public and the presence
\* of the usages are stated for it.)
C9_OneUsagePerColumn ==
    (EvalReturned({"LaplaceMechanism", "GaussianMechanism", "SimpleGeometricMechanism",
                   "ExponentialMechanism", "SnappingMechanism"})
        /\ eval.result.ok)
    => /\ eval.result.val.public = TRUE
       /\ IsSome(eval.result.val.privacy_usages)
       /\ eval.op # "ExponentialMechanism"
            => /\ Len(Unwrap(eval.result.val.privacy_usages)) = Columns(eval.arguments.data)
               /\ Unwrap(eval.result.val.privacy_usages)
                     = SpreadOver(eval.self.privacy_usage, Columns(eval.arguments.data))

\* C10: get_privacy_usage, given release usages, returns one actual usage per
\* release usage, entry i being release_usage[i] times c_stability[i] times the
\* group size; given none, it returns the declared privacy_usage.
C10_OneActualUsagePerReleaseUsage ==
    (AcctReturned /\ acct.result.ok)
    => LET returned == Unwrap(acct.result.val)
           c_stability == Unwrap(acct.properties.data).array.c_stability
           group_size == acct.privacy_definition.group_size
       IN  IF IsSome(acct.release_usage)
           THEN LET release_usage == Unwrap(acct.release_usage)
                IN  /\ Len(returned) = Len(release_usage)
                    /\ \A i \in 1..Len(returned) :
                          /\ returned[i].epsilon
                                = release_usage[i].epsilon * c_stability[i] * group_size
                          /\ returned[i].delta
                                = release_usage[i].delta * c_stability[i] * group_size
           ELSE returned = acct.self.privacy_usage

\* a call of the C ABI function op has returned (its kernel did not fail)
FfiReturnedFrom(op) == ffi.op = op /\ ffi.pc = "done" /\ ffi.outcome = "return"

\* C11: laplace_mechanism, gaussian_mechanism and simple_geometric_mechanism
\* return exactly value + n, n being the result of the kernel called without
\* the value; snapping_mechanism and snapping_mechanism_binding return the
\* result of the snapping kernel unmodified, the former called with no binding
\* probability, the latter with Some(binding_probability).
C11_FfiReturnsKernelResult ==
    /\ FfiReturnedFrom("laplace_mechanism") =>
          LET n == laplace_kernel(ffi.call.epsilon, ffi.call.sensitivity,
                                  ffi.call.enforce_constant_time, ffi.draw)
          IN  n.ok /\ ffi.result = ffi.call.value + n.val
    /\ FfiReturnedFrom("gaussian_mechanism") =>
          LET n == gaussian_kernel(ffi.call.epsilon, ffi.call.delta, ffi.call.sensitivity,
                                   ffi.call.analytic, ffi.call.enforce_constant_time, ffi.draw)
          IN  n.ok /\ ffi.result = ffi.call.value + n.val
    /\ FfiReturnedFrom("simple_geometric_mechanism") =>
          LET n == simple_geometric_kernel(ffi.epsilon, ffi.sensitivity, ffi.min, ffi.max,
                                           ffi.enforce_constant_time, ffi.draw)
          IN  n.ok /\ ffi.result = ffi.value + n.val
    /\ FfiReturnedFrom("snapping_mechanism") =>
          LET k == snapping_kernel(ffi.call.value, ffi.call.epsilon, ffi.call.sensitivity,
                                   ffi.call.min, ffi.call.max, None,
                                   ffi.call.enforce_constant_time, ffi.draw)
          IN  k.ok /\ ffi.result = k.val
    /\ FfiReturnedFrom("snapping_mechanism_binding") =>
          LET k == snapping_kernel(ffi.call.value, ffi.call.epsilon, ffi.call.sensitivity,
                                   ffi.call.min, ffi.call.max,
                                   Some(ffi.call.binding_probability),
                                   ffi.call.enforce_constant_time, ffi.draw)
          IN  k.ok /\ ffi.result = k.val

\* snapping_mechanism_binding has returned a release that is neither
\* value + release nor what the kernel yields without a binding probability
C11_Witness ==
    /\ FfiReturnedFrom("snapping_mechanism_binding")
    /\ ffi.call.value # 0
    /\ ffi.result # snapping_kernel(ffi.call.value, ffi.call.epsilon, ffi.call.sensitivity,
                                    ffi.call.min, ffi.call.max, None,
                                    ffi.call.enforce_constant_time, ffi.draw).val

\* get_closest_multiple_of_lambda has been applied n times in a row
ClosestReturned(n) ==
    util.op = "get_closest_multiple_of_lambda" /\ util.pc = "done" /\ util.applied = n

\* C12: get_closest_multiple_of_lambda is idempotent: for every finite x (zero
\* and subnormals included) and every m for which 2^m is a double, applying it
\* to its own result with the same m returns that result.
C12_ClosestMultipleIdempotent ==
    (ClosestReturned(2) /\ IsFinite(util.x)) => util.result = Ok(util.input)

\* the first application rounded a normal x up to another double with a
\* non-zero mantissa, and the function has been applied to that double
C12_Witness ==
    /\ ClosestReturned(2)
    /\ IsNormal(util.x)
    /\ util.input # util.x
    /\ util.input.mantissa > BitAnd(util.x.mantissa, util.input.mantissa)
    /\ util.result.ok

\* the double 0.76 = 1.52 * 2^-1: its mantissa holds the leading bits of 0.52
X076 == recompose(FALSE, -1, (52 * 2^MantBits) \div 100)
\* the doubles 0.75 = 1.5 * 2^-1 and 1.0
X075 == recompose(FALSE, -1, 2^(MantBits - 1))
X100 == recompose(FALSE, 0, 0)

\* C13 as stated: get_closest_multiple_of_lambda(0.76, -1) returns 0.75.
C13_Returns075 ==
    (ClosestReturned(1) /\ util.x = X076 /\ util.m = -1) => util.result = Ok(X075)

\* C13 as amended: get_closest_multiple_of_lambda(0.76, -1) returns 1.0, the
\* multiple of 0.5 closest to 0.76.
C13_Returns100 ==
    (ClosestReturned(1) /\ util.x = X076 /\ util.m = -1) => util.result = Ok(X100)

C13_Witness ==
    ClosestReturned(1) /\ util.x = X076 /\ util.m = -1 /\ util.result.ok

\* the magnitude of a finite double, in units of the smallest subnormal
Magnitude(x) ==
    IF x.exponent = 0 THEN x.mantissa ELSE (2^MantBits + x.mantissa) * 2^(x.exponent - 1)

Abs(n) == IF n < 0 THEN -n ELSE n

\* C14: for every finite normal x and every m, get_closest_multiple_of_lambda
\* returns an integer multiple of 2^m closest to x: at most 2^(m-1) away from
\* x, away from zero when x is halfway between two multiples, and with the
\* sign bit of x.
C14_ClosestMultipleOfLambda ==
    (ClosestReturned(1) /\ IsNormal(util.x)) =>
        /\ util.result.ok
        /\ IsFinite(util.result.val)
        /\ LET r == Magnitude(util.result.val)
               x == Magnitude(util.x)
               lambda == 2^(util.m + Bias + MantBits - 1)
           IN  /\ r % lambda = 0
               /\ 2 * Abs(r - x) <= lambda
               /\ (2 * Abs(r - x) = lambda) => r > x
        /\ util.result.val.sign = util.x.sign

\* the number a string of binary digits denotes
RECURSIVE BitsValue(_)
BitsValue(bits) ==
    IF bits = <<>> THEN 0
    ELSE (IF Head(bits) = "1" THEN 2^(Len(bits) - 1) ELSE 0) + BitsValue(Tail(bits))

\* C15: binary_to_f64(f64_to_binary(x)) returns Ok(x), bit for bit, for every
\* finite x (both zeros, subnormals and normals), and f64_to_binary(x) is a
\* string of exactly 1 + 11 + 52 characters '0'/'1': the sign bit, the exponent
\* bits, the mantissa bits.
C15_BinaryRoundTrip ==
    /\ (util.op = "binary_to_f64" /\ util.pc = "done" /\ IsSome(util.origin)
           /\ IsFinite(Unwrap(util.origin)))
          => util.result = Ok(Unwrap(util.origin))
    /\ (util.op = "f64_to_binary" /\ util.pc = "done") =>
          /\ Len(util.result) = 1 + ExpBits + MantBits
          /\ \A i \in 1..Len(util.result) : util.result[i] \in {"0", "1"}
          /\ (util.result[1] = "1") = util.num.sign
          /\ BitsValue(SubSeq(util.result, 2, 1 + ExpBits)) = util.num.exponent
          /\ BitsValue(SubSeq(util.result, 2 + ExpBits, 1 + ExpBits + MantBits))
                = util.num.mantissa

\* a negative subnormal has gone through both conversions
C15_Witness ==
    /\ util.op = "binary_to_f64" /\ util.pc = "done" /\ IsSome(util.origin)
    /\ Unwrap(util.origin).sign
    /\ Unwrap(util.origin).exponent = 0
    /\ Unwrap(util.origin).mantissa = 1
    /\ util.result.ok

BroadcastMapReturned == util.op = "broadcast_map" /\ util.pc = "done"

\* a shape extended with trailing unit axes to rank n
Extended(shape, n) == shape \o [i \in 1..(n - Len(shape)) |-> 1]

\* the shape C16 gives the result: that of the operand of higher rank, at equal
\* rank that of the operand with more elements
ResultShape(left, right) ==
    IF Len(left.shape) > Len(right.shape) THEN left.shape
    ELSE IF Len(left.shape) < Len(right.shape) THEN right.shape
    ELSE IF Product(left.shape) > Product(right.shape) THEN left.shape
    ELSE right.shape

\* an operand of rank 0..2, seen as a matrix, fits a result of rows x cols: each
\* of its axes has the length of the result's or length 1
FitsMatrix(array, rows, cols) ==
    LET sh == Extended(array.shape, 2)
    IN  (sh[1] = rows \/ sh[1] = 1) /\ (sh[2] = cols \/ sh[2] = 1)

\* the element of the operand that the cell (i, j) of the result pairs
ElementAt(array, i, j) ==
    LET sh == Extended(array.shape, 2)
    IN  array.data[((IF sh[1] = 1 THEN 1 ELSE i) - 1) * sh[2]
                   + (IF sh[2] = 1 THEN 1 ELSE j)]

\* C16: on operands of rank 0, 1 or 2 broadcast_map agrees with the double loop
\* over the rows and columns of the result: the result has the shape of the
\* operand of higher rank (at equal rank, of the one with more elements), and
\* its cell (i, j) is operator(l, r), l taken from left and r from right, an
\* operand of lower rank being extended with trailing unit axes; where an
\* operand does not fit that shape there is no result.
C16_BroadcastMapAgreesWithLoop ==
    (BroadcastMapReturned /\ Len(util.left.shape) <= 2 /\ Len(util.right.shape) <= 2) =>
        LET shape == ResultShape(util.left, util.right)
            rows == Extended(shape, 2)[1]
            cols == Extended(shape, 2)[2]
        IN  IF FitsMatrix(util.left, rows, cols) /\ FitsMatrix(util.right, rows, cols)
            THEN /\ util.result.ok
                 /\ util.result.val.shape = shape
                 /\ Len(util.result.val.data) = rows * cols
                 /\ \A i \in 1..rows : \A j \in 1..cols :
                       util.result.val.data[(i - 1) * cols + j]
                          = Apply(util.operator, ElementAt(util.left, i, j),
                                  ElementAt(util.right, i, j))
            ELSE ~util.result.ok

\* a vector has been mapped against a matrix with as many rows and more than
\* one column, by the operator that tells its operands apart
C16_Witness ==
    /\ BroadcastMapReturned
    /\ util.operator = "pair"
    /\ Len(util.left.shape) = 1 /\ util.left.shape[1] > 1
    /\ Len(util.right.shape) = 2 /\ util.right.shape[1] = util.left.shape[1]
    /\ util.right.shape[2] > 1
    /\ util.result.ok

\* the operands can be broadcast to one shape: axis by axis, the operand of
\* lower rank extended with trailing unit axes, their lengths agree or one is 1
CommonShape(left, right) ==
    LET n == Max2(Len(left.shape), Len(right.shape))
        l == Extended(left.shape, n)
        r == Extended(right.shape, n)
    IN  \A a \in 1..n : l[a] = r[a] \/ l[a] = 1 \/ r[a] = 1

\* C17: broadcast_map returns Err, and neither panics nor returns a truncated
\* or partly filled array, whenever its operands cannot be broadcast to one
\* common shape.
C17_BroadcastMapRejectsNonConformable ==
    (BroadcastMapReturned /\ ~CommonShape(util.left, util.right)) =>
        /\ ~util.result.ok
        /\ util.result.err \in {"could not broadcast left argument",
                                "could not broadcast right argument"}

\* two vectors of different lengths, both longer than 1, have been handed over
C17_Witness ==
    /\ BroadcastMapReturned
    /\ Len(util.left.shape) = 1 /\ Len(util.right.shape) = 1
    /\ util.left.shape[1] > 1 /\ util.right.shape[1] > util.left.shape[1]
    /\ ~util.result.ok

NumColumnsReturned == util.op = "get_num_columns" /\ util.pc = "done"

\* C18: get_num_columns returns 1 for every array of rank 0 or 1, the length of
\* axis 1 for every array of rank 2 (0 when that axis is empty) and an error
\* for every array of rank 3 or more.
C18_NumColumnsByRank ==
    NumColumnsReturned =>
        LET shape == util.data.shape
        IN  /\ Len(shape) \in {0, 1} => util.result = Ok(1)
            /\ Len(shape) = 2 => util.result = Ok(shape[2])
            /\ Len(shape) >= 3 => ~util.result.ok

\* a vector of more than one element has been counted
C18_Witness ==
    /\ NumColumnsReturned
    /\ Len(util.data.shape) = 1
    /\ util.data.shape[1] > 1
    /\ util.result.ok

\* accuracy_to_privacy_usage has converted what privacy_usage_to_accuracy returned
AccuracyRoundTrip ==
    acct.op = "accuracy_to_privacy_usage" /\ acct.pc = "done" /\ IsSome(acct.origin)

\* the per-column sensitivities and the declared epsilon of column i of that call
RoundTripSensitivities ==
    Unwrap(Unwrap(acct.properties.data).array.aggregator).sensitivity.val.values
RoundTripEpsilon(i) ==
    IF Len(acct.self.privacy_usage) = 1 THEN acct.self.privacy_usage[1].epsilon
    ELSE acct.self.privacy_usage[i].epsilon

\* C19 as stated: at fixed alpha and per-column sensitivity s, converting a usage
\* to an accuracy and that accuracy back returns the original epsilon, for
\* every column, every alpha in (0, 1], s >= 0 and epsilon > 0.
C19_AccuracyRoundTrip ==
    AccuracyRoundTrip =>
        /\ acct.result.ok
        /\ Len(Unwrap(acct.result.val)) = Len(RoundTripSensitivities)
        /\ \A i \in 1..Len(RoundTripSensitivities) :
              Unwrap(acct.result.val)[i].epsilon = Num(RoundTripEpsilon(i), 1)

\* C19 as amended: the same for every alpha in (0, 1) and every column of
\* sensitivity s > 0 (with alpha = 1 or s = 0 the accuracy is 0 for every
\* epsilon, and cannot be converted back).
C19_AccuracyRoundTripPositive ==
    (AccuracyRoundTrip /\ Unwrap(acct.origin) > 0) =>
        /\ acct.result.ok
        /\ Len(Unwrap(acct.result.val)) = Len(RoundTripSensitivities)
        /\ \A i \in 1..Len(RoundTripSensitivities) :
              RoundTripSensitivities[i] > 0
                 => Unwrap(acct.result.val)[i].epsilon = Num(RoundTripEpsilon(i), 1)

\* two columns of different positive sensitivities and different epsilons
\* have gone through both conversions, with alpha < 1
C19_Witness ==
    /\ AccuracyRoundTrip
    /\ Unwrap(acct.origin) > 0
    /\ Len(RoundTripSensitivities) = 2
    /\ RoundTripSensitivities[1] > 0
    /\ RoundTripSensitivities[2] > RoundTripSensitivities[1]
    /\ Len(acct.self.privacy_usage) = 2
    /\ acct.result.ok

\* C20: when enforce_constant_time is true, sample_from_set runs in
\* data-independent time: its loop makes the same number of iterations for
\* every uniform sample and every selected index, one per candidate, without
\* leaving early once the element is found.
C20_SampleFromSetConstantTime ==
    (util.op = "sample_from_set" /\ util.pc = "done" /\ util.enforce_constant_time)
        => util.result.iterations = Len(util.candidate_set)

CreateSubsetReturned == util.op = "create_subset" /\ util.pc = "done"

\* C21: create_subset returns an error when k > set.len(); otherwise it returns
\* exactly k elements, taken from k pairwise distinct indices of set, for every
\* outcome of the random keys, ties between keys included (the elements of the
\* sets of the model are pairwise distinct, so that distinct elements are
\* distinct indices).
C21_CreateSubsetWithoutReplacement ==
    CreateSubsetReturned =>
        IF util.k > Len(util.set) THEN ~util.result.ok
        ELSE /\ util.result.ok
             /\ Len(util.result.val) = util.k
             /\ \A i \in 1..util.k : \E n \in 1..Len(util.set) :
                   util.result.val[i] = util.set[n]
             /\ \A i, j \in 1..util.k :
                   i # j => util.result.val[i] # util.result.val[j]

\* a subset of two elements has been drawn where all keys were equal
C21_Witness ==
    /\ CreateSubsetReturned
    /\ util.k = 2
    /\ Len(util.set) > 2
    /\ \A i \in 1..Len(util.set) : util.keys[i] = util.keys[1]
    /\ util.result.ok

CompReturned(ops) == comp.op \in ops /\ comp.pc = "done"

\* C22: imputation changes only null cells: when impute_float_uniform_arrayd
\* or impute_float_gaussian_arrayd returns an array it has the shape of the
\* data and every cell that was not NaN keeps its value; Impute.evaluate with
\* the uniform distribution on integer data draws no random value and, with
\* integer bounds, returns the data unchanged (other bounds are a type error).
C22_ImputationChangesOnlyNullCells ==
    /\ (/\ CompReturned({"impute_float_uniform_arrayd", "impute_float_gaussian_arrayd"})
        /\ comp.result.ok)
          => /\ comp.result.val.shape = comp.data.shape
             /\ Len(comp.result.val.data) = Len(comp.data.data)
             /\ \A k \in 1..Len(comp.data.data) :
                   ~is_nan(comp.data.data[k]) => comp.result.val.data[k] = comp.data.data[k]
    /\ (/\ CompReturned({"Impute"})
        /\ Unwrap(comp.arguments.data).atomic = "Int"
        /\ \/ comp.arguments.distribution = None
           \/ Unwrap(comp.arguments.distribution).data[1] \in {"Uniform", "uniform"})
          => /\ comp.draws = 0
             /\ comp.result.ok => comp.result.val.value = Unwrap(comp.arguments.data)
             /\ (/\ Unwrap(comp.arguments.lower).atomic = "Int"
                 /\ Unwrap(comp.arguments.upper).atomic = "Int") => comp.result.ok

\* a matrix of two columns with null and non-null cells has been imputed
C22_Witness ==
    /\ CompReturned({"impute_float_uniform_arrayd"})
    /\ comp.result.ok
    /\ comp.data.shape = <<2, 2>>
    /\ \E k \in 1..4 : is_nan(comp.data.data[k])
    /\ \E k \in 1..4 : ~is_nan(comp.data.data[k])
    /\ comp.draws = 2

\* the number of columns and the column of the k-th cell of an array of rank 0..2
NumColumnsOf(shape) == IF Len(shape) = 2 THEN shape[2] ELSE 1
ColumnOf(shape, k) == IF Len(shape) = 2 THEN ((k - 1) % shape[2]) + 1 ELSE 1

\* the bound of column j: the single value of the argument, or its j-th value
ColumnBound(argument, j) ==
    IF Len(argument.data) = 1 THEN argument.data[1] ELSE argument.data[j]

\* a vector whose length is neither 1 nor the number of columns
BadLength(argument, shape) ==
    /\ Len(argument.shape) = 1
    /\ argument.shape[1] \notin {1, NumColumnsOf(shape)}

\* C23: after a successful impute_float_uniform_arrayd with bounds
\* lower[j] < upper[j], no cell of the result is NaN and every cell of column j
\* that was NaN holds a value of [lower[j], upper[j]) of that column j, a bound
\* given as a single value applying to every column; a bound whose length is
\* neither 1 nor the number of columns makes the call fail, returning no data.
C23_UniformImputationWithinColumnBounds ==
    (CompReturned({"impute_float_uniform_arrayd"}) /\ Len(comp.data.shape) <= 2) =>
        /\ (BadLength(comp.lower, comp.data.shape) \/ BadLength(comp.upper, comp.data.shape))
              => (~comp.result.ok /\ comp.result.val = <<>>)
        /\ (/\ comp.result.ok
            /\ \A j \in 1..NumColumnsOf(comp.data.shape) :
                  ColumnBound(comp.lower, j) < ColumnBound(comp.upper, j))
              => /\ Len(comp.result.val.data) = Len(comp.data.data)
                 /\ \A k \in 1..Len(comp.data.data) :
                       LET cell == comp.result.val.data[k]
                           j == ColumnOf(comp.data.shape, k)
                       IN  /\ ~is_nan(cell)
                           /\ is_nan(comp.data.data[k])
                                 => /\ ColumnBound(comp.lower, j) <= cell.v
                                    /\ cell.v < ColumnBound(comp.upper, j)

\* a matrix of null cells has been imputed with a single lower bound and one
\* upper bound per column
C23_Witness ==
    /\ CompReturned({"impute_float_uniform_arrayd"})
    /\ comp.result.ok
    /\ comp.data.shape = <<2, 2>>
    /\ \A k \in 1..4 : is_nan(comp.data.data[k])
    /\ comp.lower.shape = <<>>
    /\ comp.upper.shape = <<2>>
    /\ comp.upper.data[1] > comp.lower.data[1]
    /\ comp.result.val.data[2] # comp.result.val.data[1]

\* the distribution argument of an Impute.evaluate names a distribution
ValidDistribution(arguments) ==
    /\ IsSome(arguments.distribution)
    /\ Unwrap(arguments.distribution).atomic = "Str"
    /\ to_lowercase(Unwrap(arguments.distribution).data[1]) \in {"uniform", "gaussian"}

\* C24: Impute.evaluate on continuous data performs uniform imputation whenever
\* no valid distribution is provided: when the distribution argument is absent,
\* and when it is present but is not a string or names neither uniform nor
\* gaussian.
C24_ImputeDefaultsToUniform ==
    (CompReturned({"Impute"}) /\ ~ValidDistribution(comp.arguments)) => comp.arm = "uniform"

\* C25: component_row_wise_min returns the element-wise minimum of its operands
\* after broadcasting, for F64 and for I64 operands alike: every cell of the
\* result is <= both cells it was computed from and equals one of them.
C25_RowWiseMinIsMinimum ==
    (CompReturned({"component_row_wise_min"}) /\ comp.result.ok) =>
        LET rows == Extended(comp.result.val.shape, 2)[1]
            cols == Extended(comp.result.val.shape, 2)[2]
        IN  \A i \in 1..rows : \A j \in 1..cols :
               LET out == comp.result.val.data[(i - 1) * cols + j]
                   l == ElementAt(comp.arguments.left, i, j)
                   r == ElementAt(comp.arguments.right, i, j)
               IN  out <= l /\ out <= r /\ out \in {l, r}

\* C26: a mechanism evaluate is all-or-nothing: when a kernel call fails while
\* Laplace, Gaussian, SimpleGeometric or Snapping evaluate iterates the cells,
\* evaluate returns that same error, the failing call is the last kernel call
\* it makes, and it returns no ReleaseNode.
C26_EvaluateAllOrNothing ==
    EvalReturned({"LaplaceMechanism", "GaussianMechanism", "SimpleGeometricMechanism",
                  "SnappingMechanism"}) =>
        \A i \in 1..Len(eval.kernel_log) :
           ~eval.kernel_log[i].ok =>
              /\ i = Len(eval.kernel_log)
              /\ ~eval.result.ok
              /\ eval.result.err = eval.kernel_log[i].err
              /\ eval.result.val = <<>>

\* a kernel call has failed after the cells of a first column were noised
C26_Witness ==
    /\ EvalReturned({"LaplaceMechanism"})
    /\ Len(eval.kernel_log) > 1
    /\ eval.kernel_log[1].ok
    /\ ~eval.kernel_log[Len(eval.kernel_log)].ok
    /\ ~eval.result.ok

\* the cells of the first column of an array
FirstColumn(array) ==
    IF Len(array.shape) = 2
    THEN {array.data[(i - 1) * array.shape[2] + 1] : i \in 1..array.shape[1]}
    ELSE {array.data[k] : k \in 1..Len(array.data)}

\* C30: ExponentialMechanism.evaluate, when it returns Ok, releases exactly one
\* 0-dimensional value that is a cell of the first column of candidates,
\* whatever the number of candidate columns, and the privacy_usages it reports
\* have one entry per element of the sensitivity argument.
C30_ExponentialReleasesFirstColumn ==
    (EvalReturned({"ExponentialMechanism"}) /\ eval.result.ok) =>
        /\ eval.result.val.value.shape = <<>>
        /\ Len(eval.result.val.value.data) = 1
        /\ Len(eval.arguments.candidates.shape) <= 2
              => eval.result.val.value.data[1] \in FirstColumn(eval.arguments.candidates)
        /\ \E k \in 1..Len(eval.arguments.candidates.data) :
              eval.result.val.value.data[1] = eval.arguments.candidates.data[k]
        /\ IsSome(eval.result.val.privacy_usages)
        /\ Len(Unwrap(eval.result.val.privacy_usages)) = Len(eval.arguments.sensitivity.data)

\* a candidate has been released from a matrix of two columns of candidates,
\* with a sensitivity of two elements
C30_Witness ==
    /\ EvalReturned({"ExponentialMechanism"})
    /\ eval.result.ok
    /\ Len(eval.arguments.candidates.shape) = 2
    /\ eval.arguments.candidates.shape[2] = 2
    /\ Len(eval.arguments.sensitivity.data) = 2
    /\ Len(eval.kernel_log) = 2

\* the fields of an array property that its release sets
ReleasedFields == {"releasable", "aggregator"}

\* C27: LaplaceMechanism.propagate_property changes only the releasable and
\* aggregator fields: on success every other field of the returned property
\* (data type, number of records and columns, bounds, nullity, c_stability,
\* dataset id) equals that field of the "data" property it was given, and on
\* success or error the properties map and the privacy definition of the caller
\* are what they were before the call.
C27_PropagatePropertyFrame ==
    [][PropagateProperty =>
          /\ prop'.properties = prop.properties
          /\ prop'.privacy_definition = prop.privacy_definition
          /\ prop'.result.ok =>
                /\ DOMAIN prop'.result.val.properties = DOMAIN Unwrap(prop.properties.data).array
                /\ \A field \in DOMAIN prop'.result.val.properties \ ReleasedFields :
                      prop'.result.val.properties[field]
                         = Unwrap(prop.properties.data).array[field]]_vars

\* a property with a known number of records, with bounds and with an
\* aggregator has been released
C27_Witness ==
    /\ PropReturned
    /\ prop.result.ok
    /\ IsSome(PropData.num_records)
    /\ IsSome(PropData.nature)
    /\ IsSome(PropData.aggregator)
    /\ prop.result.val.properties.releasable
    /\ prop.result.val.properties.num_records = PropData.num_records

\* the position in the candidate set of the candidate that was returned
ReturnedIndex == CHOOSE i \in 1..Len(util.candidate_set) : util.candidate_set[i] = util.result.val

\* C28: sample_from_set (build without use-mpfr), for every weight vector with
\* non-negative entries and positive sum and every uniform sample of
\* [0, sum(weights)), ends after at most weights.len() iterations of its loop
\* without indexing past the end of weights or candidate_set, and returns a
\* candidate whose weight is strictly positive.
C28_SampleFromSetPositiveWeight ==
    (util.op = "sample_from_set" /\ util.pc = "done" /\ ~util.mpfr) =>
        /\ util.result.ok
        /\ util.result.iterations <= Len(util.weights)
        /\ util.weights[ReturnedIndex] > 0

\* the bit pattern is +0.0 or -0.0
IsZero(x) == x.exponent = 0 /\ x.mantissa = 0

\* C29: get_closest_multiple_of_lambda maps zero to zero: for x = +0.0 or -0.0
\* and every m of the exponent range of a double, the result is a zero with
\* the sign of x.
C29_ClosestMultipleOfZero ==
    (ClosestReturned(1) /\ IsZero(util.x)) =>
        /\ util.result.ok
        /\ IsZero(util.result.val)
        /\ util.result.val.sign = util.x.sign

====
